---- MODULE Spec2Model ----
(***************************************************************************)
(* Interlock Network smart contracts (ink!).                               *)
(*                                                                         *)
(*  - Spec       : the multisig coordinator of the universal access NFT    *)
(*                 contract (src/contract_uanft/lib.rs): ordering and      *)
(*                 signing a transaction, and the operations that manage   *)
(*                 the signatory set and the threshold.                    *)
(*  - SpecAll    : the same coordinator with every multisig-gated          *)
(*                 operation (time limit, pausing, ownership, code         *)
(*                 migration as well).                                     *)
(*  - SpecLedger : the ILOCK token ledger, pools, vesting, payouts and     *)
(*                 rewards, as observed by src/contract_ilockmvp/          *)
(*                 tests_e2e.rs and described by spec.md.                  *)
(*  - SpecVesting: the vesting scheduler of the ILOCK token alone, over    *)
(*                 more periods and payouts than SpecLedger runs.          *)
(*  - SpecNft    : the token messages of the universal access NFT          *)
(*                 contract: mints, transfer, approve, burn, lock and the  *)
(*                 socket to the ILOCK token.                              *)
(*  - SpecPause  : pausing and unpausing, with the token messages that the *)
(*                 pause stops.                                            *)
(*  - SpecPayout : the payout dispenser and the reward distributor of the  *)
(*                 ILOCK token, with emissions that use up the owner's     *)
(*                 reserve.                                                *)
(*  - SpecFresh  : the coordinator from every construction the constructor *)
(*                 accepts: other time limits and other signatories.       *)
(*  - SpecParameters: the coordinator with the two operations that write   *)
(*                 the threshold and the time limit.                       *)
(*  - SpecReentry: self_mint with a socket callee that calls self_mint     *)
(*                 again before it returns.                                *)
(***************************************************************************)
EXTENDS Integers, Sequences, FiniteSets, TLC

(***************************************************************************)
(* Bounds of the model.                                                    *)
(***************************************************************************)
\* the block timestamp ranges over TickLen, 2 * TickLen .. MaxTime * TickLen
MaxTime == 2
\* privileged operations the model lets succeed in one run of Spec
MaxExecuted == 2
\* privileged operations the model lets succeed in one run of SpecAll
MaxExecutedAll == 1

(***************************************************************************)
(* Program constants of contract_uanft.                                    *)
(***************************************************************************)
TIME_LIMIT_MIN == 600000
THRESHOLD_MIN == 2

TRANSFER_OWNERSHIP == 0
UNPAUSE == 1
ADD_SIGNATORY == 2
REMOVE_SIGNATORY == 3
CHANGE_TIMELIMIT == 4
CHANGE_THRESHOLD == 5
UPDATE_CONTRACT == 6

\* u16::MAX, where checked_add(1) overflows
U16Max == 65535

\* AccountId::from([0_u8; 32])
ZeroAddress == "zero"
\* AccountID::default(), AccountId::from([1_u8; 32])
DefaultAddress == "default"
\* the account that deploys the contract
Deployer == "alice"
\* addresses are opaque identifiers
Accounts == {ZeroAddress, DefaultAddress, Deployer, "bob", "carol"}

\* the accounts that send messages: two signatories and an account that is
\* no signatory at construction ("carol" holds a key and stays silent)
Callers == {Deployer, "bob", DefaultAddress}

\* the signatory_2 and signatory_3 arguments of the constructor
Signatory2Inputs == {"bob"}
Signatory3Inputs == {"carol"}

\* the signatory_2 and timelimit arguments of the constructor in SpecFresh
FreshSignatory2Inputs == {"bob", DefaultAddress, ZeroAddress}
FreshTimelimitInputs == {TIME_LIMIT_MIN, 2 * TIME_LIMIT_MIN}

\* the strings a caller may pass as `function`
FunctionNames ==
    {"TRANSFER_OWNERSHIP", "UNPAUSE", "ADD_SIGNATORY", "REMOVE_SIGNATORY",
     "CHANGE_THRESHOLD", "CHANGE_TIMELIMIT", "UPDATE_CONTRACT"}
FunctionInputs == FunctionNames \cup {"BOGUS"}
\* the strings passed in Spec: the functions of its operations, the function
\* held by a never-ordered slot (index 0), and a string that names none
SignatoryFunctionInputs ==
    {"TRANSFER_OWNERSHIP", "ADD_SIGNATORY", "REMOVE_SIGNATORY",
     "CHANGE_THRESHOLD", "BOGUS"}

\* the block timestamp advances in steps of this length
TickLen == TIME_LIMIT_MIN

\* arguments offered to the privileged operations
ThresholdInputs == {THRESHOLD_MIN - 1, THRESHOLD_MIN, THRESHOLD_MIN + 1, U16Max}
TimelimitInputs == {TIME_LIMIT_MIN - 1, TIME_LIMIT_MIN, 2 * TIME_LIMIT_MIN}
CodeHashes == {"code_v2", "no_such_code"}
NewOwnerInputs == {ZeroAddress, "bob"}

(***************************************************************************)
(* The universal access NFTs.                                              *)
(***************************************************************************)
\* the cap the contract is constructed with
MaxCap == 3
\* the token messages that succeed in one run
MaxNftOps == 4
\* the price the contract is constructed with
TokenPrice == 1
\* the token messages that succeed in one run of SpecPause
MaxPauseOps == 2

\* the accounts that send token messages and receive tokens
NftAccounts == {Deployer, "bob"}
\* token ids offered to transfer, burn, lock and approve
IdInputs == 1..(MaxCap - 1)
\* prices offered to self_mint: below the price, at the price and above it
PriceInputs == {TokenPrice - 1, TokenPrice, TokenPrice + 1}

(***************************************************************************)
(* The ILOCK token contract.  Its source is not part of src/; the ledger   *)
(* is modelled from spec.md sections 3 and 4.1 to 4.5 and from what        *)
(* tests_e2e.rs observes.  Amounts are scaled down: one unit stands for a  *)
(* fixed number of tokens.                                                 *)
(***************************************************************************)
\* the largest month the clock reaches
MaxMonth == 4
\* the largest month the clock reaches in one run of SpecLedger
MaxLedgerMonth == 2
\* the messages that change the token contract's state in one run of
\* SpecLedger
MaxLedgerOps == 3
\* the messages that change the token contract's state in one run of
\* SpecVesting
MaxVestingOps == 4
\* the most that is transferred back to the owner in one run
MaxReturned == 2
\* the largest amount offered to transfer, approve, payout and reward
MaxAmount == 2
\* the messages that change the token contract's state in one run of
\* SpecPayout
MaxPayoutOps == 3

\* the distinguished owner of the token contract: its deployer
ILOCKOwner == Deployer
\* the accounts that hold tokens and send messages to the token contract
Holders == {Deployer, "bob", "carol"}
\* the accounts that are approved as spenders
Spenders == {"bob"}

\* the pool table
PoolNames == {"REWARDS", "TEAM", "PARTNERS", "COMMUNITY", "PUBLIC"}
\* a faulty pool list of payout_tokens that lacks COMMUNITY
PayoutPoolsWithoutCommunity == {"PARTNERS", "PUBLIC"}
\* the pools payout_tokens may pay from
PayoutPools == {"PARTNERS", "COMMUNITY", "PUBLIC"}
\* POOLS[pool].tokens * DECIMALS_POWER10, scaled
Allocation(pool) ==
    CASE pool = "REWARDS"   -> 2
      [] pool = "TEAM"      -> 6
      [] pool = "PARTNERS"  -> 1
      [] pool = "COMMUNITY" -> 1
      [] pool = "PUBLIC"    -> 1
\* POOLS[pool].cliffs and POOLS[pool].vests, scaled
Cliffs(pool) == IF pool = "TEAM" THEN 1 ELSE 0
Vests(pool) == IF pool = "TEAM" THEN 2 ELSE 1
\* the whole supply is allocated to the pools
SUPPLY_CAP ==
    Allocation("REWARDS") + Allocation("TEAM") + Allocation("PARTNERS")
        + Allocation("COMMUNITY") + Allocation("PUBLIC")

\* arguments offered to the token contract's messages
AmountInputs == 1..MaxAmount \cup {SUPPLY_CAP + 1}
RecipientInputs == (Holders \ {ILOCKOwner})
TransferToInputs == Holders \cup {ZeroAddress}
PoolNameInputs == {"PARTNERS", "PUBLIC", "TEAM", "NO_SUCH_POOL"}
\* the pool names offered in SpecPayout: every pool and a string that names
\* none
PayoutNameInputs == PoolNames \cup {"NO_SUCH_POOL"}
\* the amounts the owner transfers out in SpecPayout: a small one and one
\* that leaves a reserve of 1
EmissionInputs == {1, SUPPLY_CAP - 1}
\* the callers of the owner-only messages: the owner and another account
OwnerInputs == {ILOCKOwner, "bob"}
\* the callers of transfer_from: the approved spender and another account
SpenderInputs == {"bob", "carol"}
StakeholderInputs == {"bob"}
VestingPoolInputs == {"TEAM"}
\* shares that the vesting period count divides with and without remainder
\* into payouts that do and do not divide the share
ShareInputs == {3, 5}
StakeKeys == StakeholderInputs \X VestingPoolInputs

\* a (address, pool) pair with no stakeholder record
\* (lastpaid: the period of the last payout; payments: history, the number
\* of payouts taken)
NoStake ==
    [share |-> 0, paid |-> 0, registered |-> FALSE, lastpaid |-> -1,
     payments |-> 0]

VARIABLES
    \* MultisigData
    signatories,    \* Vec<AccountID>
    threshold,      \* u16
    timelimit,      \* Timestamp
    tx,             \* Transaction
    \* ownable::Data, pausable::Data, the contract's code hash
    owner,
    paused,
    code_hash,
    \* environment: block_timestamp()
    now,
    \* the message being answered: its name, its caller and what it returns
    last,
    \* history: the caller of the last successful order_multisigtx ({} if none)
    orderedBy,
    \* history: privileged operations executed since the last successful order
    executed,
    \* history: privileged operations executed since construction
    total,
    \* the ILOCK ledger: balance and allowance maps, circulating supply
    balances,
    allowances,
    total_supply,
    \* one mutable counter per pool
    pools,
    \* stakeholder records keyed by (address, pool)
    stakes,
    \* the month counter
    month,
    \* reward counters: global and per recipient
    rewarded_total,
    rewarded_interlocker_total,
    \* history: per pool, the sum of the amounts released from it
    released,
    \* history: the sum of the amounts transferred to the owner
    returned,
    \* history: the messages that changed the token contract's state
    ledger_ops,
    \* psp34::Data: the owner of each token, the approvals
    token_owner,
    operator_approvals,
    \* AccessData
    cap,
    nft_psp22price,
    collections,
    \* AppData: the operator, and whether the token contract holds a socket
    \* for this contract
    operator,
    socket,
    \* Psp34Nft
    last_token_id,
    locked_tokens,
    locked_token_count,
    \* metadata::Data: the tokens that carry attributes
    attributes,
    \* history: the (caller, address, amount) triples of the call_socket
    \* messages that were forwarded to the token contract
    forwarded,
    \* history: the token messages that succeeded
    nft_ops

\* the state of the ILOCK token contract
ledger_vars == <<balances, allowances, total_supply, pools, stakes, month,
                 rewarded_total, rewarded_interlocker_total, released, returned,
                 ledger_ops>>

\* the state of the universal access NFT contract's multisig
multisig_vars == <<signatories, threshold, timelimit, tx, owner, paused,
                   code_hash, now, orderedBy, executed, total>>

\* the state of the universal access NFT contract's tokens
nft_vars == <<token_owner, operator_approvals, cap, nft_psp22price,
              collections, operator, socket, last_token_id, locked_tokens,
              locked_token_count, attributes, forwarded, nft_ops>>

vars == <<signatories, threshold, timelimit, tx, owner, paused, code_hash,
          now, last, orderedBy, executed, total, balances, allowances,
          total_supply, pools, stakes, month, rewarded_total,
          rewarded_interlocker_total, released, returned, ledger_ops,
          token_owner, operator_approvals, cap, nft_psp22price, collections,
          operator, socket, last_token_id, locked_tokens, locked_token_count,
          attributes, forwarded, nft_ops>>

\* everything a multisig-gated operation guards
guarded == <<signatories, threshold, timelimit, owner, paused, code_hash, tx>>

(***************************************************************************)
(* Helpers over Vec.                                                       *)
(***************************************************************************)
Range(s) == {s[i] : i \in 1..Len(s)}

\* Vec::contains
Contains(s, x) == x \in Range(s)

\* Vec::retain(|&account| account != x)
RECURSIVE Retain(_, _)
Retain(s, x) ==
    IF s = <<>> THEN <<>>
    ELSE IF Head(s) = x THEN Retain(Tail(s), x)
    ELSE <<Head(s)>> \o Retain(Tail(s), x)

\* Transaction::default()
DefaultTransaction ==
    [orderer |-> DefaultAddress, signatures |-> <<>>,
     function |-> 0, time |-> 0, ready |-> FALSE]

\* the match on function.as_str() shared by check_multisig, order and sign;
\* -1 stands for the InvalidFunction arm
FunctionIndex(function) ==
    CASE function = "TRANSFER_OWNERSHIP" -> TRANSFER_OWNERSHIP
      [] function = "UNPAUSE"            -> UNPAUSE
      [] function = "ADD_SIGNATORY"      -> ADD_SIGNATORY
      [] function = "REMOVE_SIGNATORY"   -> REMOVE_SIGNATORY
      [] function = "CHANGE_THRESHOLD"   -> CHANGE_THRESHOLD
      [] function = "CHANGE_TIMELIMIT"   -> CHANGE_TIMELIMIT
      [] function = "UPDATE_CONTRACT"    -> UPDATE_CONTRACT
      [] OTHER                           -> -1

\* the staleness test of check_multisig, order_multisigtx and sign_multisigtx
Stale == now - tx.time >= timelimit

\* no message is being answered
Idle == [op |-> "idle", caller |-> ZeroAddress, result |-> "Ok"]

\* a message `opname` sent by `caller` returns r
Returned(opname, caller, r) == [op |-> opname, caller |-> caller, result |-> r]

(***************************************************************************)
(* Constructor.                                                            *)
(***************************************************************************)
new(caller, tl, signatory_2, signatory_3) ==
    /\ caller # signatory_2
    /\ caller # signatory_3
    /\ signatory_2 # signatory_3
    /\ tl >= TIME_LIMIT_MIN
    /\ signatories = <<caller, signatory_2, signatory_3>>
    /\ timelimit = tl
    /\ threshold = 2
    /\ tx = DefaultTransaction
    /\ owner = caller
    /\ paused = FALSE
    /\ code_hash = "code_v1"
    /\ operator = caller

\* the part of the constructor that sets up the tokens: Self::default()
\* with the cap and the price
new_access(token_cap, price) ==
    /\ cap = token_cap
    /\ nft_psp22price = price
    /\ token_owner = [id \in {} |-> ZeroAddress]
    /\ operator_approvals = {}
    /\ collections = [a \in {} |-> <<>>]
    /\ socket = FALSE
    /\ last_token_id = 0
    /\ locked_tokens = {}
    /\ locked_token_count = 0
    /\ attributes = {}

\* the token contract after construction: the owner holds the whole supply,
\* nothing circulates, every pool holds its allocation
\* (new_balance: the balance of an account after construction)
new_balance(a) == IF a = ILOCKOwner THEN SUPPLY_CAP ELSE 0

new_token ==
    /\ balances = [a \in Holders |-> new_balance(a)]
    /\ allowances = [p \in Holders \X Spenders |-> 0]
    /\ total_supply = 0
    /\ pools = [p \in PoolNames |-> Allocation(p)]
    /\ stakes = [k \in StakeKeys |-> NoStake]
    /\ month = 0
    /\ rewarded_total = 0
    /\ rewarded_interlocker_total = [a \in Holders |-> 0]
    /\ released = [p \in PoolNames |-> 0]
    /\ returned = 0
    /\ ledger_ops = 0

\* the contract is deployed on a running chain: block_timestamp() counts the
\* milliseconds since 1970 and is past the time limit, so the never-ordered
\* slot (time 0) is stale from the start
Init ==
    /\ \E s2 \in Signatory2Inputs, s3 \in Signatory3Inputs :
           new(Deployer, TIME_LIMIT_MIN, s2, s3)
    /\ now = TickLen
    /\ last = Idle
    /\ orderedBy = {}
    /\ executed = 0
    /\ total = 0
    /\ new_token
    /\ new_access(MaxCap, TokenPrice)
    /\ forwarded = {}
    /\ nft_ops = 0

(***************************************************************************)
(* check_multisig: the result it returns for a caller and a function name. *)
(***************************************************************************)
\* a faulty check_multisig that lacks the staleness test
check_multisig_without_staleness(caller, function) ==
    IF ~Contains(signatories, caller) THEN "CallerNotSignatory"
    ELSE IF Len(tx.signatures) < threshold THEN "NotEnoughSignatures"
    ELSE IF FunctionIndex(function) = -1 THEN "InvalidFunction"
    ELSE IF FunctionIndex(function) # tx.function THEN "WrongFunction"
    ELSE "Ok"

check_multisig(caller, function) ==
    IF ~Contains(signatories, caller) THEN "CallerNotSignatory"
    ELSE IF Len(tx.signatures) < threshold THEN "NotEnoughSignatures"
    ELSE IF now - tx.time >= timelimit THEN "TransactionStale"
    ELSE IF FunctionIndex(function) = -1 THEN "InvalidFunction"
    ELSE IF FunctionIndex(function) # tx.function THEN "WrongFunction"
    ELSE "Ok"

(***************************************************************************)
(* order_multisigtx                                                        *)
(***************************************************************************)
\* a faulty order_multisigtx that overwrites a slot within its time window
order_multisigtx_result_overwriting(caller, function) ==
    IF ~Contains(signatories, caller) THEN "CallerNotSignatory"
    ELSE IF now - tx.time >= timelimit /\ caller = tx.orderer THEN "CannotReorder"
    ELSE IF FunctionIndex(function) = -1 THEN "InvalidFunction"
    ELSE "Ok"

order_multisigtx_result(caller, function) ==
    IF ~Contains(signatories, caller) THEN "CallerNotSignatory"
    ELSE IF now - tx.time < timelimit THEN "TransactionAlreadyOrdered"
    ELSE IF now - tx.time >= timelimit /\ caller = tx.orderer THEN "CannotReorder"
    ELSE IF FunctionIndex(function) = -1 THEN "InvalidFunction"
    ELSE "Ok"

order_multisigtx(caller, function) ==
    LET r == order_multisigtx_result(caller, function) IN
    /\ last = Idle
    /\ last' = Returned("order_multisigtx", caller, r)
    /\ IF r = "Ok"
       THEN /\ tx' = [tx EXCEPT !.function = FunctionIndex(function),
                                !.time = now,
                                !.signatures = <<[signer |-> caller, time |-> now]>>]
            /\ orderedBy' = {caller}
            /\ executed' = 0
       ELSE UNCHANGED <<tx, orderedBy, executed>>
    /\ UNCHANGED <<signatories, threshold, timelimit, owner, paused, code_hash,
                   now, total>>
    /\ UNCHANGED <<ledger_vars, nft_vars>>

(***************************************************************************)
(* sign_multisigtx                                                         *)
(***************************************************************************)
\* a faulty sign_multisigtx that lets a signatory sign twice
sign_multisigtx_result_resigning(caller, function) ==
    IF ~Contains(signatories, caller) THEN "CallerNotSignatory"
    ELSE IF FunctionIndex(function) = -1 THEN "InvalidFunction"
    ELSE IF FunctionIndex(function) # tx.function THEN "WrongFunction"
    ELSE IF now - tx.time >= timelimit THEN "TransactionStale"
    ELSE "Ok"

sign_multisigtx_result(caller, function) ==
    IF ~Contains(signatories, caller) THEN "CallerNotSignatory"
    ELSE IF FunctionIndex(function) = -1 THEN "InvalidFunction"
    ELSE IF FunctionIndex(function) # tx.function THEN "WrongFunction"
    ELSE IF now - tx.time >= timelimit THEN "TransactionStale"
    ELSE IF \E i \in 1..Len(tx.signatures) : tx.signatures[i].signer = caller
         THEN "AlreadySigned"
    ELSE "Ok"

sign_multisigtx(caller, function) ==
    LET r == sign_multisigtx_result(caller, function) IN
    /\ last = Idle
    /\ last' = Returned("sign_multisigtx", caller, r)
    /\ tx' = IF r = "Ok"
             THEN [tx EXCEPT !.signatures =
                       Append(@, [signer |-> caller, time |-> now])]
             ELSE tx
    /\ UNCHANGED <<signatories, threshold, timelimit, owner, paused, code_hash,
                   now, orderedBy, executed, total>>
    /\ UNCHANGED <<ledger_vars, nft_vars>>

(***************************************************************************)
(* The multisig-gated operations.  Each *_result operator is the value the *)
(* message returns in the current state; the action applies its effect.    *)
(***************************************************************************)
add_signatory_result(caller, signatory, function) ==
    LET chk == check_multisig(caller, function) IN
    IF chk # "Ok" THEN chk
    ELSE IF signatory = ZeroAddress THEN "IsZeroAddress"
    ELSE IF Contains(signatories, signatory) THEN "AlreadySignatory"
    ELSE "Ok"

add_signatory(caller, signatory, function) ==
    LET r == add_signatory_result(caller, signatory, function) IN
    /\ last = Idle
    /\ last' = Returned("add_signatory", caller, r)
    /\ signatories' = IF r = "Ok" THEN Append(signatories, signatory)
                      ELSE signatories
    /\ r = "Ok" => total < MaxExecuted
    /\ executed' = IF r = "Ok" THEN executed + 1 ELSE executed
    /\ total' = IF r = "Ok" THEN total + 1 ELSE total
    /\ UNCHANGED <<threshold, timelimit, tx, owner, paused, code_hash, now,
                   orderedBy>>
    /\ UNCHANGED <<ledger_vars, nft_vars>>

\* a faulty remove_signatory that compares with < where the code has <=
remove_signatory_result_off_by_one(caller, signatory, function) ==
    LET chk == check_multisig(caller, function) IN
    IF chk # "Ok" THEN chk
    ELSE IF signatory = ZeroAddress THEN "IsZeroAddress"
    ELSE IF ~Contains(signatories, signatory) THEN "NoSignatory"
    ELSE IF threshold = U16Max THEN "Overflow"
    ELSE IF Len(signatories) < threshold + 1 THEN "TooFewSignatories"
    ELSE "Ok"

remove_signatory_result(caller, signatory, function) ==
    LET chk == check_multisig(caller, function) IN
    IF chk # "Ok" THEN chk
    ELSE IF signatory = ZeroAddress THEN "IsZeroAddress"
    ELSE IF ~Contains(signatories, signatory) THEN "NoSignatory"
    ELSE IF threshold = U16Max THEN "Overflow"
    ELSE IF Len(signatories) <= threshold + 1 THEN "TooFewSignatories"
    ELSE "Ok"

remove_signatory(caller, signatory, function) ==
    LET r == remove_signatory_result(caller, signatory, function) IN
    /\ last = Idle
    /\ last' = Returned("remove_signatory", caller, r)
    /\ signatories' = IF r = "Ok" THEN Retain(signatories, signatory)
                      ELSE signatories
    /\ r = "Ok" => total < MaxExecuted
    /\ executed' = IF r = "Ok" THEN executed + 1 ELSE executed
    /\ total' = IF r = "Ok" THEN total + 1 ELSE total
    /\ UNCHANGED <<threshold, timelimit, tx, owner, paused, code_hash, now,
                   orderedBy>>
    /\ UNCHANGED <<ledger_vars, nft_vars>>

\* a faulty change_threshold that does not count the signatories
change_threshold_result_uncounted(caller, newthreshold, function) ==
    LET chk == check_multisig(caller, function) IN
    IF chk # "Ok" THEN chk
    ELSE IF newthreshold < THRESHOLD_MIN THEN "UnderThresholdMin"
    ELSE IF newthreshold = U16Max THEN "Overflow"
    ELSE "Ok"

change_threshold_result(caller, newthreshold, function) ==
    LET chk == check_multisig(caller, function) IN
    IF chk # "Ok" THEN chk
    ELSE IF newthreshold < THRESHOLD_MIN THEN "UnderThresholdMin"
    ELSE IF newthreshold = U16Max THEN "Overflow"
    ELSE IF Len(signatories) < newthreshold + 1 THEN "TooFewSignatories"
    ELSE "Ok"

change_threshold(caller, newthreshold, function) ==
    LET r == change_threshold_result(caller, newthreshold, function) IN
    /\ last = Idle
    /\ last' = Returned("change_threshold", caller, r)
    /\ threshold' = IF r = "Ok" THEN newthreshold ELSE threshold
    /\ r = "Ok" => total < MaxExecuted
    /\ executed' = IF r = "Ok" THEN executed + 1 ELSE executed
    /\ total' = IF r = "Ok" THEN total + 1 ELSE total
    /\ UNCHANGED <<signatories, timelimit, tx, owner, paused, code_hash, now,
                   orderedBy>>
    /\ UNCHANGED <<ledger_vars, nft_vars>>

\* a faulty change_multisigtxtimelimit that accepts every time limit
change_multisigtxtimelimit_result_unbounded(caller, newtimelimit, function) ==
    check_multisig(caller, function)

change_multisigtxtimelimit_result(caller, newtimelimit, function) ==
    LET chk == check_multisig(caller, function) IN
    IF chk # "Ok" THEN chk
    ELSE IF newtimelimit < TIME_LIMIT_MIN THEN "UnderTimeLimit"
    ELSE "Ok"

change_multisigtxtimelimit(caller, newtimelimit, function) ==
    LET r == change_multisigtxtimelimit_result(caller, newtimelimit, function) IN
    /\ last = Idle
    /\ last' = Returned("change_multisigtxtimelimit", caller, r)
    /\ timelimit' = IF r = "Ok" THEN newtimelimit ELSE timelimit
    /\ r = "Ok" => total < MaxExecuted
    /\ executed' = IF r = "Ok" THEN executed + 1 ELSE executed
    /\ total' = IF r = "Ok" THEN total + 1 ELSE total
    /\ UNCHANGED <<signatories, threshold, tx, owner, paused, code_hash, now,
                   orderedBy>>
    /\ UNCHANGED <<ledger_vars, nft_vars>>

\* Pausable::_pause carries when_not_paused
pause_result(caller) ==
    IF ~Contains(signatories, caller) THEN "CallerNotSignatory"
    ELSE IF paused THEN "Paused"
    ELSE "Ok"

pause(caller) ==
    LET r == pause_result(caller) IN
    /\ last = Idle
    /\ last' = Returned("pause", caller, r)
    /\ paused' = IF r = "Ok" THEN TRUE ELSE paused
    /\ UNCHANGED <<signatories, threshold, timelimit, tx, owner, code_hash, now,
                   orderedBy, executed, total>>
    /\ UNCHANGED <<ledger_vars, nft_vars>>

\* Pausable::_unpause carries when_paused
unpause_result(caller, function) ==
    LET chk == check_multisig(caller, function) IN
    IF chk # "Ok" THEN chk
    ELSE IF ~paused THEN "NotPaused"
    ELSE "Ok"

unpause(caller, function) ==
    LET r == unpause_result(caller, function) IN
    /\ last = Idle
    /\ last' = Returned("unpause", caller, r)
    /\ paused' = IF r = "Ok" THEN FALSE ELSE paused
    /\ r = "Ok" => total < MaxExecuted
    /\ executed' = IF r = "Ok" THEN executed + 1 ELSE executed
    /\ total' = IF r = "Ok" THEN total + 1 ELSE total
    /\ UNCHANGED <<signatories, threshold, timelimit, tx, owner, code_hash, now,
                   orderedBy>>
    /\ UNCHANGED <<ledger_vars, nft_vars>>

transfer_ownership_result(caller, newowner, function) ==
    LET chk == check_multisig(caller, function) IN
    IF chk # "Ok" THEN chk
    ELSE IF newowner = ZeroAddress THEN "IsZeroAddress"
    ELSE "Ok"

transfer_ownership(caller, newowner, function) ==
    LET r == transfer_ownership_result(caller, newowner, function) IN
    /\ last = Idle
    /\ last' = Returned("transfer_ownership", caller, r)
    /\ owner' = IF r = "Ok" THEN newowner ELSE owner
    /\ r = "Ok" => total < MaxExecuted
    /\ executed' = IF r = "Ok" THEN executed + 1 ELSE executed
    /\ total' = IF r = "Ok" THEN total + 1 ELSE total
    /\ UNCHANGED <<signatories, threshold, timelimit, tx, paused, code_hash, now,
                   orderedBy>>
    /\ UNCHANGED <<ledger_vars, nft_vars>>

\* set_code_hash fails for a hash with no uploaded code; the message then
\* panics and the call is reverted
update_contract_result(caller, hash, function) ==
    LET chk == check_multisig(caller, function) IN
    IF chk # "Ok" THEN chk
    ELSE IF hash = "no_such_code" THEN "Panic"
    ELSE "Ok"

update_contract(caller, hash, function) ==
    LET r == update_contract_result(caller, hash, function) IN
    /\ last = Idle
    /\ last' = Returned("update_contract", caller, r)
    /\ code_hash' = IF r = "Ok" THEN hash ELSE code_hash
    /\ r = "Ok" => total < MaxExecuted
    /\ executed' = IF r = "Ok" THEN executed + 1 ELSE executed
    /\ total' = IF r = "Ok" THEN total + 1 ELSE total
    /\ UNCHANGED <<signatories, threshold, timelimit, tx, owner, paused, now,
                   orderedBy>>
    /\ UNCHANGED <<ledger_vars, nft_vars>>

\* check_signatures returns the signatures of the slot; it writes nothing
check_signatures_result(caller) ==
    IF ~Contains(signatories, caller) THEN "CallerNotSignatory"
    ELSE IF now - tx.time > timelimit THEN "TransactionStale"
    ELSE "Ok"

check_signatures(caller) ==
    /\ last = Idle
    /\ last' = Returned("check_signatures", caller,
                        check_signatures_result(caller))
    /\ UNCHANGED <<multisig_vars, ledger_vars, nft_vars>>

\* block_timestamp() advances between messages
Tick ==
    /\ last = Idle
    /\ now < MaxTime * TickLen
    /\ now' = now + TickLen
    /\ UNCHANGED <<signatories, threshold, timelimit, tx, owner, paused,
                   code_hash, last, orderedBy, executed, total>>
    /\ UNCHANGED <<ledger_vars, nft_vars>>

\* the message returns to its caller; the contract awaits the next message
Return ==
    /\ last # Idle
    /\ last' = Idle
    /\ UNCHANGED <<signatories, threshold, timelimit, tx, owner, paused,
                   code_hash, now, orderedBy, executed, total>>
    /\ UNCHANGED <<ledger_vars, nft_vars>>

(***************************************************************************)
(* The ILOCK ledger (spec.md 4.1).  Where spec.md leaves the precedence of *)
(* simultaneous errors open, the checks run in the order it lists them.    *)
(***************************************************************************)
\* a message that returns r counts towards the run's budget when it succeeds
Counted(r) == ledger_ops' = IF r = "Ok" THEN ledger_ops + 1 ELSE ledger_ops

\* allowance(from, spender)
allowance(from, spender) ==
    IF spender \in Spenders THEN allowances[<<from, spender>>] ELSE 0

\* a faulty balance movement that leaves the circulating supply alone
transfer_from_to_uncoupled(from, to, amount) ==
    /\ balances' = [balances EXCEPT ![from] = @ - amount, ![to] = @ + amount]
    /\ total_supply' = total_supply
    /\ pools' = IF to = ILOCKOwner
                THEN [pools EXCEPT !["REWARDS"] = @ + amount]
                ELSE pools
    /\ returned' = IF to = ILOCKOwner THEN returned + amount ELSE returned

\* a faulty balance movement that does not credit the REWARDS pool
transfer_from_to_without_credit(from, to, amount) ==
    /\ balances' = [balances EXCEPT ![from] = @ - amount, ![to] = @ + amount]
    /\ total_supply' = total_supply
                         + (IF from = ILOCKOwner THEN amount ELSE 0)
                         - (IF to = ILOCKOwner THEN amount ELSE 0)
    /\ pools' = pools
    /\ returned' = IF to = ILOCKOwner THEN returned + amount ELSE returned

\* the balance movement shared by transfer and transfer_from: a transfer
\* from the owner is an emission, a transfer to the owner is a retirement
\* that is credited to the REWARDS pool
transfer_from_to(from, to, amount) ==
    /\ balances' = [balances EXCEPT ![from] = @ - amount, ![to] = @ + amount]
    /\ total_supply' = total_supply
                         + (IF from = ILOCKOwner THEN amount ELSE 0)
                         - (IF to = ILOCKOwner THEN amount ELSE 0)
    /\ pools' = IF to = ILOCKOwner
                THEN [pools EXCEPT !["REWARDS"] = @ + amount]
                ELSE pools
    /\ returned' = IF to = ILOCKOwner THEN returned + amount ELSE returned

transfer_result(caller, to, amount) ==
    IF caller = ZeroAddress \/ to = ZeroAddress THEN "ZeroAddress"
    ELSE IF amount > balances[caller] THEN "InsufficientBalance"
    ELSE "Ok"

transfer(caller, to, amount) ==
    LET r == transfer_result(caller, to, amount) IN
    /\ last = Idle
    /\ last' = Returned("transfer", caller, r)
    /\ Counted(r)
    /\ (r = "Ok" /\ to = ILOCKOwner) => returned + amount <= MaxReturned
    /\ IF r = "Ok" THEN transfer_from_to(caller, to, amount)
       ELSE UNCHANGED <<balances, total_supply, pools, returned>>
    /\ UNCHANGED <<allowances, stakes, month, rewarded_total,
                   rewarded_interlocker_total, released>>
    /\ UNCHANGED <<multisig_vars, nft_vars>>

\* a faulty transfer_from that does not look at the allowance
transfer_from_result_unchecked(caller, from, to, amount) ==
    IF from = ZeroAddress \/ to = ZeroAddress THEN "ZeroAddress"
    ELSE IF amount > balances[from] THEN "InsufficientBalance"
    ELSE "Ok"

transfer_from_result(caller, from, to, amount) ==
    IF from = ZeroAddress \/ to = ZeroAddress THEN "ZeroAddress"
    ELSE IF amount > allowance(from, caller) THEN "InsufficientAllowance"
    ELSE IF amount > balances[from] THEN "InsufficientBalance"
    ELSE "Ok"

transfer_from(caller, from, to, amount) ==
    LET r == transfer_from_result(caller, from, to, amount) IN
    /\ last = Idle
    /\ last' = Returned("transfer_from", caller, r)
    /\ Counted(r)
    /\ (r = "Ok" /\ to = ILOCKOwner) => returned + amount <= MaxReturned
    /\ IF r = "Ok"
       THEN /\ allowances' = [allowances EXCEPT ![<<from, caller>>] = @ - amount]
            /\ transfer_from_to(from, to, amount)
       ELSE UNCHANGED <<allowances, balances, total_supply, pools, returned>>
    /\ UNCHANGED <<stakes, month, rewarded_total, rewarded_interlocker_total,
                   released>>
    /\ UNCHANGED <<multisig_vars, nft_vars>>

approve(caller, spender, amount) ==
    /\ last = Idle
    /\ last' = Returned("approve", caller, "Ok")
    /\ Counted("Ok")
    /\ allowances' = [allowances EXCEPT ![<<caller, spender>>] = amount]
    /\ UNCHANGED <<balances, total_supply, pools, stakes, month, rewarded_total,
                   rewarded_interlocker_total, released, returned>>
    /\ UNCHANGED <<multisig_vars, nft_vars>>

\* a faulty release that does not debit the owner's reserve
release_keeping_reserve(pool, recipient, amount) ==
    /\ pools' = [pools EXCEPT ![pool] = @ - amount]
    /\ balances' = [balances EXCEPT ![recipient] = @ + amount]
    /\ total_supply' = total_supply + amount
    /\ released' = [released EXCEPT ![pool] = @ + amount]

\* a faulty release that does not debit the pool
release_keeping_pool(pool, recipient, amount) ==
    /\ pools' = pools
    /\ balances' = [balances EXCEPT ![ILOCKOwner] = @ - amount,
                                    ![recipient] = @ + amount]
    /\ total_supply' = total_supply + amount
    /\ released' = [released EXCEPT ![pool] = @ + amount]

\* a release: `amount` leaves `pool` and the owner's reserve and enters
\* circulation in the recipient's balance
release(pool, recipient, amount) ==
    /\ pools' = [pools EXCEPT ![pool] = @ - amount]
    /\ balances' = [balances EXCEPT ![ILOCKOwner] = @ - amount,
                                    ![recipient] = @ + amount]
    /\ total_supply' = total_supply + amount
    /\ released' = [released EXCEPT ![pool] = @ + amount]

(***************************************************************************)
(* Reward Distributor (spec.md 4.5)                                        *)
(***************************************************************************)
\* a faulty reward_interlocker that does not compare the amount with the
\* REWARDS pool
reward_interlocker_result_unlimited(caller, amount, recipient) ==
    IF caller # ILOCKOwner THEN "CallerNotOwner"
    ELSE IF amount > balances[ILOCKOwner] THEN "Underflow"
    ELSE "Ok"

reward_interlocker_result(caller, amount, recipient) ==
    IF caller # ILOCKOwner THEN "CallerNotOwner"
    ELSE IF amount > pools["REWARDS"] THEN "PaymentTooLarge"
    ELSE IF amount > balances[ILOCKOwner] THEN "Underflow"
    ELSE "Ok"

reward_interlocker(caller, amount, recipient) ==
    LET r == reward_interlocker_result(caller, amount, recipient) IN
    /\ last = Idle
    /\ last' = Returned("reward_interlocker", caller, r)
    /\ Counted(r)
    /\ IF r = "Ok"
       THEN /\ release("REWARDS", recipient, amount)
            /\ rewarded_total' = rewarded_total + amount
            /\ rewarded_interlocker_total' =
                   [rewarded_interlocker_total EXCEPT ![recipient] = @ + amount]
       ELSE UNCHANGED <<pools, balances, total_supply, released, rewarded_total,
                        rewarded_interlocker_total>>
    /\ UNCHANGED <<allowances, stakes, month, returned>>
    /\ UNCHANGED <<multisig_vars, nft_vars>>

(***************************************************************************)
(* Payout Dispenser (spec.md 4.4)                                          *)
(***************************************************************************)
payout_tokens_result(caller, recipient, amount, pool_name) ==
    IF caller # ILOCKOwner THEN "CallerNotOwner"
    ELSE IF pool_name \notin PayoutPools THEN "InvalidPool"
    ELSE IF amount > pools[pool_name] THEN "PaymentTooLarge"
    ELSE IF amount > balances[ILOCKOwner] THEN "Underflow"
    ELSE "Ok"

payout_tokens(caller, recipient, amount, pool_name) ==
    LET r == payout_tokens_result(caller, recipient, amount, pool_name) IN
    /\ last = Idle
    /\ last' = Returned("payout_tokens", caller, r)
    /\ Counted(r)
    /\ IF r = "Ok" THEN release(pool_name, recipient, amount)
       ELSE UNCHANGED <<pools, balances, total_supply, released>>
    /\ UNCHANGED <<allowances, stakes, month, rewarded_total,
                   rewarded_interlocker_total, returned>>
    /\ UNCHANGED <<multisig_vars, nft_vars>>

(***************************************************************************)
(* Vesting Scheduler (spec.md 4.3)                                         *)
(***************************************************************************)
register_stakeholder_result(caller, address, share, pool) ==
    IF caller # ILOCKOwner THEN "CallerNotOwner"
    ELSE IF stakes[<<address, pool>>].registered THEN "StakeholderAlreadyRegistered"
    ELSE "Ok"

register_stakeholder(caller, address, share, pool) ==
    LET r == register_stakeholder_result(caller, address, share, pool) IN
    /\ last = Idle
    /\ last' = Returned("register_stakeholder", caller, r)
    /\ Counted(r)
    /\ stakes' = IF r = "Ok"
                 THEN [stakes EXCEPT ![<<address, pool>>] =
                          [share |-> share, paid |-> 0, registered |-> TRUE,
                           lastpaid |-> -1, payments |-> 0]]
                 ELSE stakes
    /\ UNCHANGED <<balances, allowances, total_supply, pools, month,
                   rewarded_total, rewarded_interlocker_total, released,
                   returned>>
    /\ UNCHANGED <<multisig_vars, nft_vars>>

\* a faulty payout that drops the remainder
payout_floor_only(share, pool) == share \div Vests(pool)

\* share / vest in every period, the remainder folded into the last period
payout(share, pool) ==
    IF month = Cliffs(pool) + Vests(pool) - 1
    THEN (share \div Vests(pool)) + (share % Vests(pool))
    ELSE share \div Vests(pool)

\* a faulty distribute_tokens that pays twice in one period
distribute_tokens_result_repeatable(address, pool) ==
    LET stake == stakes[<<address, pool>>] IN
    IF ~stake.registered THEN "StakeholderNotFound"
    ELSE IF month < Cliffs(pool) THEN "CliffNotPassed"
    ELSE IF stake.paid = stake.share THEN "StakeholderSharePaid"
    ELSE IF payout(stake.share, pool) > pools[pool] THEN "Underflow"
    ELSE IF payout(stake.share, pool) > balances[ILOCKOwner] THEN "Underflow"
    ELSE "Ok"

\* a faulty distribute_tokens that pays before the cliff
distribute_tokens_result_ignoring_cliff(address, pool) ==
    LET stake == stakes[<<address, pool>>] IN
    IF ~stake.registered THEN "StakeholderNotFound"
    ELSE IF stake.paid = stake.share THEN "StakeholderSharePaid"
    ELSE IF stake.lastpaid = month THEN "PayoutTooEarly"
    ELSE IF payout(stake.share, pool) > pools[pool] THEN "Underflow"
    ELSE IF payout(stake.share, pool) > balances[ILOCKOwner] THEN "Underflow"
    ELSE "Ok"

distribute_tokens_result(address, pool) ==
    LET stake == stakes[<<address, pool>>] IN
    IF ~stake.registered THEN "StakeholderNotFound"
    ELSE IF month < Cliffs(pool) THEN "CliffNotPassed"
    ELSE IF stake.paid = stake.share THEN "StakeholderSharePaid"
    ELSE IF stake.lastpaid = month THEN "PayoutTooEarly"
    ELSE IF payout(stake.share, pool) > pools[pool] THEN "Underflow"
    ELSE IF payout(stake.share, pool) > balances[ILOCKOwner] THEN "Underflow"
    ELSE "Ok"

distribute_tokens(caller, address, pool) ==
    LET r == distribute_tokens_result(address, pool)
        stake == stakes[<<address, pool>>]
    IN
    /\ last = Idle
    /\ last' = Returned("distribute_tokens", caller, r)
    /\ Counted(r)
    /\ IF r = "Ok"
       THEN /\ release(pool, address, payout(stake.share, pool))
            /\ stakes' = [stakes EXCEPT ![<<address, pool>>] =
                             [@ EXCEPT !.paid = @ + payout(stake.share, pool),
                                       !.lastpaid = month,
                                       !.payments = @ + 1]]
       ELSE UNCHANGED <<pools, balances, total_supply, released, stakes>>
    /\ UNCHANGED <<allowances, month, rewarded_total,
                   rewarded_interlocker_total, returned>>
    /\ UNCHANGED <<multisig_vars, nft_vars>>

\* the clock collaborator advances the month counter between messages
increment_month ==
    /\ last = Idle
    /\ month < MaxMonth
    /\ month' = month + 1
    /\ UNCHANGED <<last, balances, allowances, total_supply, pools, stakes,
                   rewarded_total, rewarded_interlocker_total, released,
                   returned, ledger_ops>>
    /\ UNCHANGED <<multisig_vars, nft_vars>>

(***************************************************************************)
(* The universal access NFTs.  A message that returns Err or panics is     *)
(* reverted: it leaves the storage as it found it.                         *)
(***************************************************************************)
\* Mapping::insert and Mapping::remove
Insert(f, k, v) == [x \in DOMAIN f \cup {k} |-> IF x = k THEN v ELSE f[x]]
Remove(f, k) == [x \in DOMAIN f \ {k} |-> f[x]]

\* iter().position(|element| *element == x), 0 standing for None
Position(s, x) ==
    IF \E i \in 1..Len(s) : s[i] = x
    THEN CHOOSE i \in 1..Len(s) : s[i] = x /\ \A j \in 1..(i - 1) : s[j] # x
    ELSE 0

\* Vec::remove(index)
RemoveAt(s, i) == SubSeq(s, 1, i - 1) \o SubSeq(s, i + 1, Len(s))

\* collections.get(a), or Vec::new() when there is none
CollectionOrNew(f, a) == IF a \in DOMAIN f THEN f[a] ELSE <<>>

\* PSP34::allowance(owner, operator, Some(id))
psp34_allowance(account, spender, id) ==
    <<account, spender, id>> \in operator_approvals

\* a token message that returns r counts towards the run's budget when it
\* succeeds
NftCounted(r) == nft_ops' = IF r = "Ok" THEN nft_ops + 1 ELSE nft_ops

\* what the token messages leave alone unless said otherwise
nft_frame == <<multisig_vars, ledger_vars, cap, nft_psp22price, operator>>

\* the next id is minted to the recipient and pushed onto its collection
mint_next_to(recipient) ==
    /\ last_token_id' = last_token_id + 1
    /\ token_owner' = Insert(token_owner, last_token_id + 1, recipient)
    /\ collections' = Insert(collections, recipient,
                             Append(CollectionOrNew(collections, recipient),
                                    last_token_id + 1))

\* a faulty cap test that lets every mint through
cap_met_never(id) == FALSE

\* the cap test the four mints share: it reads the incremented id
cap_met(id) == id >= cap

mint_result(caller) ==
    IF caller # owner THEN "CallerIsNotOwner"
    ELSE IF paused THEN "Paused"
    ELSE IF cap_met(last_token_id + 1) THEN "CapMet"
    ELSE IF last_token_id + 1 \in DOMAIN token_owner THEN "TokenExists"
    ELSE "Ok"

\* a faulty mint whose refusal for the cap keeps the incremented id
mint_keeping_increment(caller) ==
    LET r == mint_result(caller) IN
    /\ last = Idle
    /\ last' = Returned("mint", caller, r)
    /\ NftCounted(r)
    /\ IF r = "Ok" THEN mint_next_to(caller)
       ELSE /\ last_token_id' =
                   IF r = "CapMet" THEN last_token_id + 1 ELSE last_token_id
            /\ UNCHANGED <<token_owner, collections>>
    /\ UNCHANGED <<operator_approvals, socket, locked_tokens,
                   locked_token_count, attributes, forwarded>>
    /\ UNCHANGED nft_frame

\* a message that returns Err is reverted: a refused mint keeps nothing of
\* the increment made before the cap test
mint(caller) ==
    LET r == mint_result(caller) IN
    /\ last = Idle
    /\ last' = Returned("mint", caller, r)
    /\ NftCounted(r)
    /\ IF r = "Ok" THEN mint_next_to(caller)
       ELSE UNCHANGED <<last_token_id, token_owner, collections>>
    /\ UNCHANGED <<operator_approvals, socket, locked_tokens,
                   locked_token_count, attributes, forwarded>>
    /\ UNCHANGED nft_frame

mint_to(caller, recipient) ==
    LET r == mint_result(caller) IN
    /\ last = Idle
    /\ last' = Returned("mint_to", caller, r)
    /\ NftCounted(r)
    /\ IF r = "Ok" THEN mint_next_to(recipient)
       ELSE UNCHANGED <<last_token_id, token_owner, collections>>
    /\ UNCHANGED <<operator_approvals, socket, locked_tokens,
                   locked_token_count, attributes, forwarded>>
    /\ UNCHANGED nft_frame

\* the token contract's call_socket, as seen by this contract: it serves the
\* contracts that hold a socket
token_call_socket == IF socket THEN "Ok" ELSE "NoSocket"

self_mint_result(caller, price) ==
    IF paused THEN "Paused"
    ELSE IF cap_met(last_token_id + 1) THEN "CapMet"
    ELSE IF nft_psp22price > price THEN "PriceTooLow"
    ELSE IF token_call_socket # "Ok" THEN token_call_socket
    ELSE IF last_token_id + 1 \in DOMAIN token_owner THEN "TokenExists"
    ELSE "Ok"

self_mint(caller, price) ==
    LET r == self_mint_result(caller, price) IN
    /\ last = Idle
    /\ last' = Returned("self_mint", caller, r)
    /\ NftCounted(r)
    /\ IF r = "Ok"
       THEN /\ mint_next_to(caller)
            /\ forwarded' = forwarded \cup {<<caller, caller, price>>}
       ELSE UNCHANGED <<last_token_id, token_owner, collections, forwarded>>
    /\ UNCHANGED <<operator_approvals, socket, locked_tokens,
                   locked_token_count, attributes>>
    /\ UNCHANGED nft_frame

\* set_multiple_attributes refuses token 0 and locked tokens
mint_with_attributes_result(caller) ==
    IF mint_result(caller) # "Ok" THEN mint_result(caller)
    ELSE IF last_token_id + 1 = 0 THEN "InvalidInput"
    ELSE IF last_token_id + 1 \in locked_tokens THEN "TokenIsLocked"
    ELSE "Ok"

mint_with_attributes(caller) ==
    LET r == mint_with_attributes_result(caller) IN
    /\ last = Idle
    /\ last' = Returned("mint_with_attributes", caller, r)
    /\ NftCounted(r)
    /\ IF r = "Ok"
       THEN /\ mint_next_to(caller)
            /\ attributes' = attributes \cup {last_token_id + 1}
       ELSE UNCHANGED <<last_token_id, token_owner, collections, attributes>>
    /\ UNCHANGED <<operator_approvals, socket, locked_tokens,
                   locked_token_count, forwarded>>
    /\ UNCHANGED nft_frame

\* PSP34::approve(operator, Some(id), true)
psp34_approve_result(caller, spender, id) ==
    IF id \notin DOMAIN token_owner THEN "TokenNotExists"
    ELSE IF token_owner[id] = spender THEN "SelfApprove"
    ELSE IF token_owner[id] # caller THEN "NotApproved"
    ELSE "Ok"

psp34_approve(caller, spender, id) ==
    LET r == psp34_approve_result(caller, spender, id) IN
    /\ last = Idle
    /\ last' = Returned("PSP34::approve", caller, r)
    /\ NftCounted(r)
    /\ operator_approvals' =
           IF r = "Ok" THEN operator_approvals \cup {<<caller, spender, id>>}
           ELSE operator_approvals
    /\ UNCHANGED <<token_owner, collections, socket, last_token_id,
                   locked_tokens, locked_token_count, attributes, forwarded>>
    /\ UNCHANGED nft_frame

\* PSP34::transfer: _transfer_token, then the caller's and the recipient's
\* collections
psp34_transfer_result(caller, to, id) ==
    IF paused THEN "Paused"
    ELSE IF id \notin DOMAIN token_owner THEN "TokenNotExists"
    ELSE IF /\ token_owner[id] # caller
            /\ ~psp34_allowance(token_owner[id], caller, id) THEN "NotApproved"
    ELSE IF caller \notin DOMAIN collections THEN "NoCollection"
    ELSE IF Position(collections[caller], id) = 0 THEN "TokenNotInCollection"
    ELSE "Ok"

psp34_transfer(caller, to, id) ==
    LET r == psp34_transfer_result(caller, to, id)
        from_collection ==
            RemoveAt(collections[caller], Position(collections[caller], id))
        removed == Insert(collections, caller, from_collection)
    IN
    /\ last = Idle
    /\ last' = Returned("PSP34::transfer", caller, r)
    /\ NftCounted(r)
    /\ IF r = "Ok"
       THEN /\ token_owner' = [token_owner EXCEPT ![id] = to]
            /\ operator_approvals' =
                   operator_approvals \ {<<token_owner[id], caller, id>>}
            /\ collections' =
                   Insert(removed, to, Append(CollectionOrNew(removed, to), id))
       ELSE UNCHANGED <<token_owner, operator_approvals, collections>>
    /\ UNCHANGED <<socket, last_token_id, locked_tokens, locked_token_count,
                   attributes, forwarded>>
    /\ UNCHANGED nft_frame

\* PSP34Burnable::burn; owner_of(id).unwrap() and checked_sub(1).unwrap()
\* panic
burn_result(caller, account, id) ==
    IF paused THEN "Paused"
    ELSE IF id \notin DOMAIN token_owner THEN "Panic"
    ELSE IF token_owner[id] # account THEN "NotTokenOwner"
    ELSE IF ~(caller = account \/ psp34_allowance(account, caller, id))
         THEN "NotOwnerOrApproved"
    ELSE IF locked_token_count = 0 THEN "Panic"
    ELSE "Ok"

burn(caller, account, id) ==
    LET r == burn_result(caller, account, id) IN
    /\ last = Idle
    /\ last' = Returned("burn", caller, r)
    /\ NftCounted(r)
    /\ IF r = "Ok"
       THEN /\ locked_tokens' = locked_tokens \ {id}
            /\ locked_token_count' = locked_token_count - 1
            /\ token_owner' = Remove(token_owner, id)
       ELSE UNCHANGED <<locked_tokens, locked_token_count, token_owner>>
    /\ UNCHANGED <<operator_approvals, collections, socket, last_token_id,
                   attributes, forwarded>>
    /\ UNCHANGED nft_frame

lock_result(caller, id) ==
    IF id \notin DOMAIN token_owner THEN "TokenNotExists"
    ELSE IF caller # token_owner[id] THEN "CallerNotTokenOwner"
    ELSE "Ok"

lock(caller, id) ==
    LET r == lock_result(caller, id) IN
    /\ last = Idle
    /\ last' = Returned("lock", caller, r)
    /\ NftCounted(r)
    /\ IF r = "Ok"
       THEN /\ locked_token_count' = locked_token_count + 1
            /\ locked_tokens' = locked_tokens \cup {id}
       ELSE UNCHANGED <<locked_token_count, locked_tokens>>
    /\ UNCHANGED <<token_owner, operator_approvals, collections, socket,
                   last_token_id, attributes, forwarded>>
    /\ UNCHANGED nft_frame

create_socket_result(caller) ==
    IF caller # owner THEN "CallerIsNotOwner"
    ELSE IF caller # operator THEN "CallerNotOperator"
    ELSE "Ok"

create_socket(caller) ==
    LET r == create_socket_result(caller) IN
    /\ last = Idle
    /\ last' = Returned("create_socket", caller, r)
    /\ NftCounted(r)
    /\ socket' = IF r = "Ok" THEN TRUE ELSE socket
    /\ UNCHANGED <<token_owner, operator_approvals, collections,
                   last_token_id, locked_tokens, locked_token_count,
                   attributes, forwarded>>
    /\ UNCHANGED nft_frame

\* a faulty call_socket that lacks the when_not_paused modifier
call_socket_result_ignoring_pause(caller, address, amount) ==
    token_call_socket

\* call_socket passes every caller's call on to the token contract
call_socket_result(caller, address, amount) ==
    IF paused THEN "Paused"
    ELSE token_call_socket

call_socket(caller, address, amount) ==
    LET r == call_socket_result(caller, address, amount) IN
    /\ last = Idle
    /\ last' = Returned("call_socket", caller, r)
    /\ NftCounted(r)
    /\ forwarded' = IF r = "Ok" THEN forwarded \cup {<<caller, address, amount>>}
                    ELSE forwarded
    /\ UNCHANGED <<token_owner, operator_approvals, collections, socket,
                   last_token_id, locked_tokens, locked_token_count,
                   attributes>>
    /\ UNCHANGED nft_frame

\* a faulty Ownable::transfer_ownership that does what its name says
ownable_transfer_ownership_effective(caller, newowner) ==
    /\ last = Idle
    /\ last' = Returned("Ownable::transfer_ownership", caller, "Ok")
    /\ owner' = newowner
    /\ UNCHANGED <<signatories, threshold, timelimit, tx, paused, code_hash,
                   now, orderedBy, executed, total>>
    /\ UNCHANGED <<ledger_vars, nft_vars>>

\* Ownable::transfer_ownership and Ownable::renounce_ownership do nothing
ownable_transfer_ownership(caller, newowner) ==
    /\ last = Idle
    /\ last' = Returned("Ownable::transfer_ownership", caller, "Ok")
    /\ UNCHANGED <<multisig_vars, ledger_vars, nft_vars>>

renounce_ownership(caller) ==
    /\ last = Idle
    /\ last' = Returned("Ownable::renounce_ownership", caller, "Ok")
    /\ UNCHANGED <<multisig_vars, ledger_vars, nft_vars>>

Next ==
    \/ \E c \in Callers, f \in SignatoryFunctionInputs : order_multisigtx(c, f)
    \/ \E c \in Callers, f \in SignatoryFunctionInputs : sign_multisigtx(c, f)
    \/ \E c \in Callers, a \in Accounts, f \in SignatoryFunctionInputs :
           add_signatory(c, a, f)
    \/ \E c \in Callers, a \in Accounts, f \in SignatoryFunctionInputs :
           remove_signatory(c, a, f)
    \/ \E c \in Callers, t \in ThresholdInputs, f \in SignatoryFunctionInputs :
           change_threshold(c, t, f)
    \/ Tick
    \/ Return

Spec == Init /\ [][Next]_vars

\* SpecAll runs the same messages under its own budget of successes
NextAll ==
    \/ \E c \in Callers, f \in FunctionInputs : order_multisigtx(c, f)
    \/ \E c \in Callers, f \in FunctionInputs : sign_multisigtx(c, f)
    \/ \E c \in Callers, a \in Accounts, f \in FunctionInputs :
           add_signatory(c, a, f) /\ total' <= MaxExecutedAll
    \/ \E c \in Callers, a \in Accounts, f \in FunctionInputs :
           remove_signatory(c, a, f) /\ total' <= MaxExecutedAll
    \/ \E c \in Callers, t \in ThresholdInputs, f \in FunctionInputs :
           change_threshold(c, t, f) /\ total' <= MaxExecutedAll
    \/ \E c \in Callers, t \in TimelimitInputs, f \in FunctionInputs :
           change_multisigtxtimelimit(c, t, f) /\ total' <= MaxExecutedAll
    \/ \E c \in Callers : pause(c)
    \/ \E c \in Callers, f \in FunctionInputs :
           unpause(c, f) /\ total' <= MaxExecutedAll
    \/ \E c \in Callers, a \in NewOwnerInputs, f \in FunctionInputs :
           transfer_ownership(c, a, f) /\ total' <= MaxExecutedAll
    \/ \E c \in Callers, h \in CodeHashes, f \in FunctionInputs :
           update_contract(c, h, f) /\ total' <= MaxExecutedAll
    \/ \E c \in Callers, a \in NewOwnerInputs : ownable_transfer_ownership(c, a)
    \/ \E c \in Callers : renounce_ownership(c)
    \/ Tick
    \/ Return

SpecAll == Init /\ [][NextAll]_vars

\* the strings passed in SpecParameters: the functions of the two messages
\* that write threshold and timelimit
ParameterFunctionInputs == {"CHANGE_THRESHOLD", "CHANGE_TIMELIMIT"}

\* SpecParameters runs the messages that write threshold and timelimit
NextParameters ==
    \/ \E c \in Callers, f \in ParameterFunctionInputs : order_multisigtx(c, f)
    \/ \E c \in Callers, f \in ParameterFunctionInputs : sign_multisigtx(c, f)
    \/ \E c \in Callers, t \in ThresholdInputs, f \in ParameterFunctionInputs :
           change_threshold(c, t, f) /\ total' <= MaxExecutedAll
    \/ \E c \in Callers, t \in TimelimitInputs, f \in ParameterFunctionInputs :
           change_multisigtxtimelimit(c, t, f) /\ total' <= MaxExecutedAll
    \/ Tick
    \/ Return

SpecParameters == Init /\ [][NextParameters]_vars

NextLedger ==
    \/ \E c \in Holders, to \in TransferToInputs, n \in AmountInputs :
           transfer(c, to, n) /\ ledger_ops' <= MaxLedgerOps
    \/ \E c \in SpenderInputs, from \in Holders, to \in TransferToInputs,
          n \in AmountInputs :
           transfer_from(c, from, to, n) /\ ledger_ops' <= MaxLedgerOps
    \/ \E c \in Holders \ Spenders, sp \in Spenders, n \in 1..MaxAmount :
           approve(c, sp, n) /\ ledger_ops' <= MaxLedgerOps
    \/ \E c \in OwnerInputs, n \in AmountInputs, to \in RecipientInputs :
           reward_interlocker(c, n, to) /\ ledger_ops' <= MaxLedgerOps
    \/ \E c \in OwnerInputs, to \in RecipientInputs, n \in AmountInputs,
          p \in PoolNameInputs :
           payout_tokens(c, to, n, p) /\ ledger_ops' <= MaxLedgerOps
    \/ \E c \in OwnerInputs, a \in StakeholderInputs, sh \in ShareInputs,
          p \in VestingPoolInputs :
           register_stakeholder(c, a, sh, p) /\ ledger_ops' <= MaxLedgerOps
    \/ \E a \in StakeholderInputs, p \in VestingPoolInputs :
           distribute_tokens(ILOCKOwner, a, p) /\ ledger_ops' <= MaxLedgerOps
    \/ increment_month /\ month' <= MaxLedgerMonth
    \/ Return

SpecLedger == Init /\ [][NextLedger]_vars

\* SpecVesting runs the vesting scheduler alone, under its own budget
NextVesting ==
    \/ \E c \in OwnerInputs, a \in StakeholderInputs, sh \in ShareInputs,
          p \in VestingPoolInputs :
           register_stakeholder(c, a, sh, p) /\ ledger_ops' <= MaxVestingOps
    \/ \E c \in OwnerInputs, a \in StakeholderInputs, p \in VestingPoolInputs :
           distribute_tokens(c, a, p) /\ ledger_ops' <= MaxVestingOps
    \/ increment_month
    \/ Return

SpecVesting == Init /\ [][NextVesting]_vars

\* SpecPayout runs payout_tokens and reward_interlocker next to the owner's
\* own transfers
NextPayout ==
    \/ \E to \in RecipientInputs, n \in EmissionInputs :
           transfer(ILOCKOwner, to, n) /\ ledger_ops' <= MaxPayoutOps
    \/ \E c \in OwnerInputs, to \in RecipientInputs, n \in AmountInputs,
          p \in PayoutNameInputs :
           payout_tokens(c, to, n, p) /\ ledger_ops' <= MaxPayoutOps
    \/ \E c \in OwnerInputs, n \in AmountInputs, to \in RecipientInputs :
           reward_interlocker(c, n, to) /\ ledger_ops' <= MaxPayoutOps
    \/ Return

SpecPayout == Init /\ [][NextPayout]_vars

\* SpecNft runs the token messages of the universal access NFT contract
NextNft ==
    \/ \E c \in NftAccounts : mint(c) /\ nft_ops' <= MaxNftOps
    \/ \E c \in NftAccounts, to \in NftAccounts :
           mint_to(c, to) /\ nft_ops' <= MaxNftOps
    \/ \E c \in NftAccounts, p \in PriceInputs :
           self_mint(c, p) /\ nft_ops' <= MaxNftOps
    \/ \E c \in NftAccounts : mint_with_attributes(c) /\ nft_ops' <= MaxNftOps
    \/ \E c \in NftAccounts, sp \in NftAccounts, id \in IdInputs :
           psp34_approve(c, sp, id) /\ nft_ops' <= MaxNftOps
    \/ \E c \in NftAccounts, to \in NftAccounts, id \in IdInputs :
           psp34_transfer(c, to, id) /\ nft_ops' <= MaxNftOps
    \/ \E c \in NftAccounts, a \in NftAccounts, id \in IdInputs :
           burn(c, a, id) /\ nft_ops' <= MaxNftOps
    \/ \E c \in NftAccounts, id \in IdInputs :
           lock(c, id) /\ nft_ops' <= MaxNftOps
    \/ \E c \in NftAccounts : create_socket(c) /\ nft_ops' <= MaxNftOps
    \/ \E c \in NftAccounts, a \in NftAccounts :
           call_socket(c, a, TokenPrice) /\ nft_ops' <= MaxNftOps
    \/ \E c \in NftAccounts : pause(c)
    \/ Return

SpecNft == Init /\ [][NextNft]_vars

\* the strings passed in SpecPause: the function of unpause and another one
PauseFunctionInputs == {"UNPAUSE", "ADD_SIGNATORY"}

\* SpecPause runs pause and unpause with the messages that carry
\* when_not_paused
NextPause ==
    \/ \E c \in Callers, f \in PauseFunctionInputs : order_multisigtx(c, f)
    \/ \E c \in Callers, f \in PauseFunctionInputs : sign_multisigtx(c, f)
    \/ \E c \in Callers : pause(c)
    \/ \E c \in Callers, f \in PauseFunctionInputs :
           unpause(c, f) /\ total' <= MaxExecutedAll
    \/ \E c \in NftAccounts : mint(c) /\ nft_ops' <= MaxPauseOps
    \/ \E c \in NftAccounts, to \in NftAccounts :
           mint_to(c, to) /\ nft_ops' <= MaxPauseOps
    \/ \E c \in NftAccounts, p \in PriceInputs :
           self_mint(c, p) /\ nft_ops' <= MaxPauseOps
    \/ \E c \in NftAccounts :
           mint_with_attributes(c) /\ nft_ops' <= MaxPauseOps
    \/ \E c \in NftAccounts, to \in NftAccounts, id \in IdInputs :
           psp34_transfer(c, to, id) /\ nft_ops' <= MaxPauseOps
    \/ \E c \in NftAccounts, a \in NftAccounts, id \in IdInputs :
           burn(c, a, id) /\ nft_ops' <= MaxPauseOps
    \/ \E c \in NftAccounts : create_socket(c) /\ nft_ops' <= MaxPauseOps
    \/ \E c \in NftAccounts, a \in NftAccounts :
           call_socket(c, a, TokenPrice) /\ nft_ops' <= MaxPauseOps
    \/ Tick
    \/ Return

SpecPause == Init /\ [][NextPause]_vars

\* the contract after construction with any arguments the constructor accepts
InitFresh ==
    /\ \E tl \in FreshTimelimitInputs, s2 \in FreshSignatory2Inputs,
          s3 \in Signatory3Inputs :
           new(Deployer, tl, s2, s3)
    /\ now = TickLen
    /\ last = Idle
    /\ orderedBy = {}
    /\ executed = 0
    /\ total = 0
    /\ new_token
    /\ new_access(MaxCap, TokenPrice)
    /\ forwarded = {}
    /\ nft_ops = 0

\* SpecFresh runs ordering, signing and the signatory set from there
NextFresh ==
    \/ \E c \in Callers, f \in SignatoryFunctionInputs : order_multisigtx(c, f)
    \/ \E c \in Callers, f \in SignatoryFunctionInputs : sign_multisigtx(c, f)
    \/ \E c \in Callers, a \in Accounts, f \in SignatoryFunctionInputs :
           add_signatory(c, a, f) /\ total' <= MaxExecutedAll
    \/ \E c \in Callers, a \in Accounts, f \in SignatoryFunctionInputs :
           remove_signatory(c, a, f) /\ total' <= MaxExecutedAll
    \/ \E c \in Callers : check_signatures(c)
    \/ Tick
    \/ Return

SpecFresh == InitFresh /\ [][NextFresh]_vars

(***************************************************************************)
(* Properties of the multisig coordinator.                                 *)
(***************************************************************************)
\* the operations behind check_multisig
GatedOps ==
    {"add_signatory", "remove_signatory", "change_threshold",
     "change_multisigtxtimelimit", "unpause", "transfer_ownership",
     "update_contract"}

\* the function constant each gated operation is meant to be ordered under
OpFunction(op) ==
    CASE op = "transfer_ownership"         -> TRANSFER_OWNERSHIP
      [] op = "unpause"                    -> UNPAUSE
      [] op = "add_signatory"              -> ADD_SIGNATORY
      [] op = "remove_signatory"           -> REMOVE_SIGNATORY
      [] op = "change_multisigtxtimelimit" -> CHANGE_TIMELIMIT
      [] op = "change_threshold"           -> CHANGE_THRESHOLD
      [] op = "update_contract"            -> UPDATE_CONTRACT

\* the signers recorded in the transaction slot
Signers == {tx.signatures[i].signer : i \in 1..Len(tx.signatures)}

\* C1: a multisig-gated operation succeeds only if its caller is a signatory,
\* the slot holds at least `threshold` signatures and the slot is younger than
\* `timelimit`; when one of the three fails the operation returns an error
\* and leaves signatories, threshold, timelimit, owner, paused state, code
\* hash and the transaction slot as they were.
C1_GatedOnlyWhenAuthorized ==
    [][ (last = Idle /\ last'.op \in GatedOps) =>
          LET authorized == /\ Contains(signatories, last'.caller)
                            /\ Len(tx.signatures) >= threshold
                            /\ now - tx.time < timelimit
          IN  /\ last'.result = "Ok" => authorized
              /\ ~authorized => (last'.result # "Ok" /\ UNCHANGED guarded)
      ]_vars

\* C1 witness: ownership was transferred by a gated call
C1_Witness ==
    last.op = "transfer_ownership" /\ last.result = "Ok" /\ owner = "bob"

\* C2: signatures collected for one function never authorize a different
\* operation: a gated operation that succeeds is the one the slot was
\* ordered for.
C2_SignaturesBindOperation ==
    (last.op \in GatedOps /\ last.result = "Ok") =>
        tx.function = OpFunction(last.op)

\* C3: a successful privileged operation consumes the transaction: no second
\* privileged operation succeeds on the same order and signatures.
C3_TransactionConsumed == executed <= 1

\* C4: when the slot is stale, an order by the signatory that ordered it is
\* refused with CannotReorder and leaves the slot unchanged, so no signatory
\* orders two consecutive transactions.
C4_OrdererCannotReorder ==
    [][ ( /\ last = Idle
          /\ last'.op = "order_multisigtx"
          /\ Contains(signatories, last'.caller)
          /\ Stale
          /\ last'.caller \in orderedBy )
        => (last'.result = "CannotReorder" /\ UNCHANGED tx) ]_vars

\* C5: when the slot is stale, an order by a current signatory that did not
\* order it is not refused (it succeeds whenever the function name is one of
\* the seven).
C5_OthersCanOrder ==
    [][ ( /\ last = Idle
          /\ last'.op = "order_multisigtx"
          /\ Contains(signatories, last'.caller)
          /\ Stale
          /\ last'.caller \notin orderedBy )
        => last'.result \in {"Ok", "InvalidFunction"} ]_vars

\* C6: the number of signatories is at least threshold + 1.
C6_EnoughSignatories == Len(signatories) >= threshold + 1

\* C6 witness: a signatory was removed and the set is at its minimum
C6_Witness ==
    /\ last.op = "remove_signatory"
    /\ last.result = "Ok"
    /\ Len(signatories) = threshold + 1

\* C7: every signature in the transaction slot was made by a current
\* signatory, also after remove_signatory.
C7_SignersAreSignatories == Signers \subseteq Range(signatories)

(***************************************************************************)
(* Properties of the ILOCK ledger.                                         *)
(***************************************************************************)
\* the sum of f over the set S
RECURSIVE SumOver(_, _)
SumOver(f, S) ==
    IF S = {} THEN 0
    ELSE LET x == CHOOSE y \in S : TRUE IN f[x] + SumOver(f, S \ {x})

C10_PoolConservation ==
    \A p \in PoolNames : Allocation(p) = pools[p] + released[p]

\* C10, amended: the equation holds for every pool other than REWARDS; for
\* REWARDS the initial allocation equals the pool balance plus the amounts
\* released minus the amounts transferred to the owner.
C10_PoolConservationButRewards ==
    /\ \A p \in PoolNames \ {"REWARDS"} :
           Allocation(p) = pools[p] + released[p]
    /\ Allocation("REWARDS") = pools["REWARDS"] + released["REWARDS"] - returned

\* C10 witness: a reward was paid, tokens came back to the owner, and the
\* REWARDS pool holds more than its allocation minus the rewards
C10_Witness ==
    /\ released["REWARDS"] > 0
    /\ returned > 0
    /\ released["PARTNERS"] > 0

(***************************************************************************)
(* Properties of the vesting scheduler.                                    *)
(***************************************************************************)
\* the last vesting period of a pool
LastPeriod(pool) == Cliffs(pool) + Vests(pool) - 1

\* the step is a distribute_tokens message
DistributeStep ==
    /\ last = Idle
    /\ last'.op = "distribute_tokens"

\* the stake k took one payout in every period from the cliff up to now
OnSchedule(k) ==
    /\ stakes[k].registered
    /\ month <= LastPeriod(k[2])
    /\ month = Cliffs(k[2]) + stakes[k].payments

\* C11: with one successful distribute_tokens in each period from cliff to
\* cliff + V - 1, each of the first V - 1 calls pays floor(S / V) and the
\* last pays floor(S / V) + S mod V; after the V calls paid is exactly S and
\* the pool balance has declined by exactly S.
C11_VestingExact ==
    [][ \A k \in StakeKeys :
          ( /\ DistributeStep
            /\ last'.result = "Ok"
            /\ stakes'[k] # stakes[k]
            /\ OnSchedule(k) ) =>
            LET S == stakes[k].share
                V == Vests(k[2])
                amount == stakes'[k].paid - stakes[k].paid
            IN  /\ amount = IF stakes[k].payments < V - 1
                            THEN S \div V
                            ELSE (S \div V) + (S % V)
                /\ pools'[k[2]] = pools[k[2]] - amount
                /\ stakes'[k].payments = V =>
                       /\ stakes'[k].paid = S
                       /\ pools'[k[2]] = Allocation(k[2]) - S
      ]_vars

\* C11 witness: a share the period count does not divide was paid out in
\* full by the last period's payout
C11_Witness ==
    \E k \in StakeKeys :
        /\ last.op = "distribute_tokens"
        /\ last.result = "Ok"
        /\ stakes[k].share % Vests(k[2]) # 0
        /\ stakes[k].payments = Vests(k[2])
        /\ stakes[k].lastpaid = LastPeriod(k[2])
        /\ stakes[k].paid = stakes[k].share

\* C12: after any sequence of register_stakeholder and distribute_tokens at
\* any periods, every stakeholder record has paid <= share.
C12_PaidAtMostShare ==
    \A k \in StakeKeys : stakes[k].paid <= stakes[k].share

\* what a distribute_tokens step leaves alone when it fails
VestingAccounts == <<stakes, balances, pools, total_supply>>

TransferStep(from, to, amount) ==
    \/ transfer(from, to, amount)
    \/ transfer_from(last'.caller, from, to, amount)

\* the step is a transfer or a transfer_from that succeeds
TransferSucceeds ==
    /\ last = Idle
    /\ last'.op \in {"transfer", "transfer_from"}
    /\ last'.result = "Ok"

\* the pools after `amount` was credited to REWARDS
Credited(amount) == [pools EXCEPT !["REWARDS"] = @ + amount]

\* C15, as stated: a successful transfer or transfer_from of X whose sender
\* is the owner increases total_supply by X and leaves every pool balance
\* unchanged; one whose recipient is the owner decreases total_supply by X
\* and increases the REWARDS pool by X; one between two other accounts
\* changes neither total_supply nor any pool.
C15_TransferCoupling ==
    [][ TransferSucceeds =>
        \A from \in Holders, to \in Holders, X \in 1..MaxAmount :
          TransferStep(from, to, X) =>
            /\ from = ILOCKOwner =>
                   (total_supply' = total_supply + X /\ pools' = pools)
            /\ to = ILOCKOwner =>
                   (total_supply' = total_supply - X /\ pools' = Credited(X))
            /\ (from # ILOCKOwner /\ to # ILOCKOwner) =>
                   (total_supply' = total_supply /\ pools' = pools)
      ]_vars

\* C15, amended: the sender clause applies when the recipient is not the
\* owner, and the recipient clause when the sender is not the owner.
C15_TransferCouplingApart ==
    [][ TransferSucceeds =>
        \A from \in Holders, to \in Holders, X \in 1..MaxAmount :
          TransferStep(from, to, X) =>
            /\ (from = ILOCKOwner /\ to # ILOCKOwner) =>
                   (total_supply' = total_supply + X /\ pools' = pools)
            /\ (to = ILOCKOwner /\ from # ILOCKOwner) =>
                   (total_supply' = total_supply - X /\ pools' = Credited(X))
            /\ (from # ILOCKOwner /\ to # ILOCKOwner) =>
                   (total_supply' = total_supply /\ pools' = pools)
      ]_vars

\* C15 witness: bob returned tokens to the owner and REWARDS holds them
C15_Witness ==
    /\ last.op = "transfer"
    /\ last.caller = "bob"
    /\ last.result = "Ok"
    /\ returned > 0
    /\ pools["REWARDS"] = Allocation("REWARDS") + returned

\* C16: transfer_from succeeds only if amount <= allowance(from, spender); on
\* success the allowance is decremented by exactly amount; on any failure
\* the allowance and all balances are unchanged.
C16_AllowanceConsumed ==
    [][ (last = Idle /\ last'.op = "transfer_from") =>
        /\ last'.result # "Ok" => UNCHANGED <<allowances, balances>>
        /\ last'.result = "Ok" =>
             \A c \in SpenderInputs, from \in Holders, to \in TransferToInputs,
                amount \in AmountInputs :
               transfer_from(c, from, to, amount) =>
                 /\ amount <= allowance(from, c)
                 /\ allowance(from, c)' = allowance(from, c) - amount
      ]_vars

\* C16 witness: the spender moved part of what it was approved for
C16_Witness ==
    /\ last.op = "transfer_from"
    /\ last.caller \in Spenders
    /\ last.result = "Ok"
    /\ \E from \in Holders :
           /\ allowances[<<from, last.caller>>] > 0
           /\ balances[from] < new_balance(from)

(***************************************************************************)
(* Properties of the universal access NFT contract.                        *)
(***************************************************************************)
\* C17: call_socket moves funds only when its caller is the registered
\* operator: a call by any other account is rejected and nothing is
\* forwarded to the token contract.
C17_OnlyOperatorCallsSocket ==
    [][ ( /\ last = Idle
          /\ last'.op = "call_socket"
          /\ last'.caller # operator )
        => (last'.result # "Ok" /\ UNCHANGED forwarded) ]_vars

\* C18: the owner changes only through the multisig-gated transfer_ownership
\* with a non-zero new owner; Ownable's transfer_ownership and
\* renounce_ownership return Ok for every caller and leave the owner alone.
C18_OwnerChangesOnlyByMultisig ==
    [][ /\ owner' # owner =>
              /\ last = Idle
              /\ last'.op = "transfer_ownership"
              /\ last'.result = "Ok"
              /\ owner' # ZeroAddress
              /\ Contains(signatories, last'.caller)
              /\ Len(tx.signatures) >= threshold
              /\ now - tx.time < timelimit
        /\ ( /\ last = Idle
             /\ last'.op \in {"Ownable::transfer_ownership",
                              "Ownable::renounce_ownership"} ) =>
              (last'.result = "Ok" /\ owner' = owner)
      ]_vars

\* C18 witness: the owner was changed by the multisig and a later
\* renounce_ownership left the new owner in place
C18_Witness ==
    /\ last.op = "Ownable::renounce_ownership"
    /\ last.result = "Ok"
    /\ owner = "bob"

\* get_collection(a), the empty vector standing for the error
get_collection(a) == CollectionOrNew(collections, a)

\* C19: collections mirror ownership: id is in get_collection(A) if and only
\* if the token exists and A is its current owner.
C19_CollectionsMirrorOwnership ==
    \A a \in NftAccounts, id \in 1..cap :
        id \in Range(get_collection(a)) <=>
            (id \in DOMAIN token_owner /\ token_owner[id] = a)

\* C20: last_token_id never exceeds cap and no token with an id above cap
\* exists, after any sequence of successful or failed mints.
C20_CapRespected ==
    /\ last_token_id <= cap
    /\ \A id \in DOMAIN token_owner : id <= cap

\* C20 witness: every id below the cap is minted and a further mint was
\* refused
C20_Witness ==
    /\ last.op \in {"mint", "mint_to", "self_mint", "mint_with_attributes"}
    /\ last.result = "CapMet"
    /\ last_token_id = cap - 1
    /\ DOMAIN token_owner = 1..(cap - 1)

(***************************************************************************)
(* Properties of pausing.                                                  *)
(***************************************************************************)
\* the messages that carry when_not_paused
PausableOps ==
    {"PSP34::transfer", "burn", "mint", "mint_to", "self_mint",
     "mint_with_attributes", "call_socket"}

\* C21: a pause by any signatory of the running contract succeeds and pauses
\* it; while the contract is paused, transfer, burn, mint, mint_to, self_mint,
\* mint_with_attributes and call_socket fail and change nothing; and the
\* contract leaves the paused state only by an unpause whose caller and
\* function pass check_multisig.
C21_PausedUntilMultisigUnpause ==
    [][ /\ ( /\ last = Idle
             /\ last'.op = "pause"
             /\ Contains(signatories, last'.caller)
             /\ ~paused )
          => (last'.result = "Ok" /\ paused')
        /\ (last = Idle /\ paused /\ last'.op \in PausableOps)
          => (last'.result # "Ok" /\ UNCHANGED <<multisig_vars, nft_vars>>)
        /\ (paused /\ ~paused')
          => \E c \in Callers, f \in PauseFunctionInputs :
                 unpause(c, f) /\ check_multisig(c, f) = "Ok"
      ]_vars

\* C21 witness: the socket exists and the contract is paused by one
\* signatory, a call_socket has just been refused, and an unpause that
\* passes the multisig check is ready to be called
C21_Witness ==
    /\ paused
    /\ socket
    /\ last.op = "call_socket"
    /\ last.result = "Paused"
    /\ \E c \in Callers : check_multisig(c, "UNPAUSE") = "Ok"

(***************************************************************************)
(* Properties of ordering and signing.                                     *)
(***************************************************************************)
\* what order_multisigtx and sign_multisigtx leave alone: everything but the
\* transaction slot
slot_frame ==
    <<signatories, threshold, timelimit, owner, paused, code_hash, now,
      ledger_vars, nft_vars>>

\* the conditions under which sign_multisigtx(function) by caller is accepted
SignAccepted(caller, function) ==
    /\ Contains(signatories, caller)
    /\ FunctionIndex(function) = tx.function
    /\ now - tx.time < timelimit
    /\ caller \notin Signers

\* a sign_multisigtx step answers as the claims describe, failing with one of
\* the errors in `errors`
SignAnswers(errors) ==
    (last = Idle /\ last'.op = "sign_multisigtx") =>
        \A c \in Callers, f \in FunctionInputs :
            sign_multisigtx(c, f) =>
                IF SignAccepted(c, f)
                THEN /\ last'.result = "Ok"
                     /\ tx' = [tx EXCEPT !.signatures =
                                  Append(@, [signer |-> c, time |-> now])]
                     /\ UNCHANGED slot_frame
                ELSE /\ last'.result \in errors
                     /\ UNCHANGED tx

\* C22 as stated: sign_multisigtx(function) succeeds exactly when the caller
\* is a signatory, function names the function of the slot, the slot is
\* within its time window and the caller has not signed it; on success one
\* Signature{caller, now} is appended and nothing else changes; otherwise it
\* fails with CallerNotSignatory, WrongFunction, TransactionStale or
\* AlreadySigned and the slot is unchanged.
C22_SignSucceedsIff ==
    [][ SignAnswers({"CallerNotSignatory", "WrongFunction",
                     "TransactionStale", "AlreadySigned"}) ]_vars

\* C22 amended: the same, with InvalidFunction among the errors (the answer
\* to a string that names none of the seven functions).
C22_SignSucceedsIffOrInvalid ==
    [][ SignAnswers({"CallerNotSignatory", "InvalidFunction", "WrongFunction",
                     "TransactionStale", "AlreadySigned"}) ]_vars

\* C22 witness: a second signatory has just signed the slot
C22_Witness ==
    /\ last.op = "sign_multisigtx"
    /\ last.result = "Ok"
    /\ Len(tx.signatures) = 2
    /\ tx.signatures[2] = [signer |-> last.caller, time |-> now]
    /\ tx.signatures[1].signer # last.caller

\* C23: order_multisigtx by an account that is no signatory fails with
\* CallerNotSignatory, and by a signatory while the slot is within its time
\* window fails with TransactionAlreadyOrdered; either way the function, the
\* time and the signatures of the slot are unchanged.
C23_OrderRefused ==
    [][ (last = Idle /\ last'.op = "order_multisigtx") =>
          /\ ~Contains(signatories, last'.caller) =>
                /\ last'.result = "CallerNotSignatory"
                /\ UNCHANGED <<tx.function, tx.time, tx.signatures>>
          /\ (Contains(signatories, last'.caller) /\ now - tx.time < timelimit) =>
                /\ last'.result = "TransactionAlreadyOrdered"
                /\ UNCHANGED <<tx.function, tx.time, tx.signatures>>
      ]_vars

\* C23 witness: a signatory that did not order the slot was refused while
\* the slot, ordered by another signatory, is within its time window
C23_Witness ==
    /\ last.op = "order_multisigtx"
    /\ last.result = "TransactionAlreadyOrdered"
    /\ Contains(signatories, last.caller)
    /\ orderedBy # {}
    /\ last.caller \notin orderedBy
    /\ now - tx.time < timelimit

\* C24: a successful order_multisigtx(function) by caller C at time t resets
\* the slot to orderer C, the function, time t and the single signature
\* Signature{C, t}, so that a sign_multisigtx by C on the fresh slot fails
\* with AlreadySigned.
C24_OrderResetsSlot ==
    [][ ( /\ last = Idle
          /\ last'.op = "order_multisigtx"
          /\ last'.result = "Ok" ) =>
            \A c \in Callers, f \in FunctionInputs :
                order_multisigtx(c, f) =>
                    /\ tx'.orderer = c
                    /\ tx'.function = FunctionIndex(f)
                    /\ tx'.time = now
                    /\ tx'.signatures = <<[signer |-> c, time |-> now]>>
                    /\ sign_multisigtx_result(c, f)' = "AlreadySigned"
      ]_vars

(***************************************************************************)
(* Properties of the multisig parameters.                                  *)
(***************************************************************************)
\* a remove_signatory that passes the multisig check and would leave fewer
\* than threshold + 1 signatories is rejected with TooFewSignatories
RemoveKeepsEnough ==
    (last = Idle /\ last'.op = "remove_signatory") =>
        \A a \in Accounts, f \in FunctionInputs :
            ( /\ check_multisig(last'.caller, f) = "Ok"
              /\ Contains(signatories, a)
              /\ Len(signatories) - 1 < threshold + 1
              /\ remove_signatory(last'.caller, a, f) ) =>
                /\ last'.result = "TooFewSignatories"
                /\ UNCHANGED <<signatories, threshold>>

\* a change_threshold(t) with t in T that passes the multisig check while
\* the signatory count is below t + 1 is rejected with TooFewSignatories
ChangeKeepsEnough(T) ==
    (last = Idle /\ last'.op = "change_threshold") =>
        \A t \in T, f \in FunctionInputs :
            ( /\ check_multisig(last'.caller, f) = "Ok"
              /\ Len(signatories) < t + 1
              /\ change_threshold(last'.caller, t, f) ) =>
                /\ last'.result = "TooFewSignatories"
                /\ UNCHANGED <<signatories, threshold>>

\* C25 as stated, for calls that pass the multisig check: remove_signatory
\* is rejected with TooFewSignatories whenever the removal would leave fewer
\* than threshold + 1 signatories, and change_threshold(t) whenever the
\* signatory count is below t + 1; the signatory set and the threshold are
\* unchanged.
C25_TooFewSignatories ==
    [][ RemoveKeepsEnough /\ ChangeKeepsEnough(ThresholdInputs) ]_vars

\* C25 amended: the same for every t below u16::MAX; change_threshold(u16::MAX)
\* is rejected with Overflow, the signatory set and the threshold unchanged.
C25_TooFewSignatoriesOrOverflow ==
    [][ /\ RemoveKeepsEnough
        /\ ChangeKeepsEnough(ThresholdInputs \ {U16Max})
        /\ (last = Idle /\ last'.op = "change_threshold") =>
              \A f \in FunctionInputs :
                  ( /\ check_multisig(last'.caller, f) = "Ok"
                    /\ change_threshold(last'.caller, U16Max, f) ) =>
                      /\ last'.result = "Overflow"
                      /\ UNCHANGED <<signatories, threshold>>
      ]_vars

\* C25 witness: a change_threshold that passed the multisig check was
\* rejected for want of signatories
C25_Witness ==
    /\ last.op = "change_threshold"
    /\ last.result = "TooFewSignatories"
    /\ Len(signatories) = threshold + 1

\* C26: threshold is at least THRESHOLD_MIN and timelimit at least
\* TIME_LIMIT_MIN in every reachable state; a change_threshold below
\* THRESHOLD_MIN that passes the multisig check fails with UnderThresholdMin
\* and a change_multisigtxtimelimit below TIME_LIMIT_MIN that passes it fails
\* with UnderTimeLimit, both leaving threshold and timelimit unchanged.
C26_ParametersAboveMinima ==
    /\ [](threshold >= THRESHOLD_MIN /\ timelimit >= TIME_LIMIT_MIN)
    /\ [][ /\ (last = Idle /\ last'.op = "change_threshold") =>
               \A t \in ThresholdInputs, f \in FunctionInputs :
                   ( /\ check_multisig(last'.caller, f) = "Ok"
                     /\ t < THRESHOLD_MIN
                     /\ change_threshold(last'.caller, t, f) ) =>
                       /\ last'.result = "UnderThresholdMin"
                       /\ UNCHANGED <<threshold, timelimit>>
           /\ (last = Idle /\ last'.op = "change_multisigtxtimelimit") =>
               \A t \in TimelimitInputs, f \in FunctionInputs :
                   ( /\ check_multisig(last'.caller, f) = "Ok"
                     /\ t < TIME_LIMIT_MIN
                     /\ change_multisigtxtimelimit(last'.caller, t, f) ) =>
                       /\ last'.result = "UnderTimeLimit"
                       /\ UNCHANGED <<threshold, timelimit>>
         ]_vars

\* C26 witness: a time limit below the minimum was refused
C26_Witness ==
    /\ last.op = "change_multisigtxtimelimit"
    /\ last.result = "UnderTimeLimit"
    /\ timelimit = TIME_LIMIT_MIN

(***************************************************************************)
(* Properties of payouts and rewards.                                      *)
(***************************************************************************)
\* what a failed message of the token contract leaves alone
ledger_state ==
    <<balances, allowances, total_supply, pools, stakes, month,
      rewarded_total, rewarded_interlocker_total>>

\* the pool is one of PARTNERS, COMMUNITY, PUBLIC and holds the amount
PoolCovers(n, p) ==
    /\ p \in {"PARTNERS", "COMMUNITY", "PUBLIC"}
    /\ n <= pools[p]

\* the pool covers the amount and so does the owner's reserve
PoolAndReserveCover(n, p) ==
    /\ PoolCovers(n, p)
    /\ n <= balances[ILOCKOwner]

\* a payout_tokens step by the owner succeeds exactly when the pool covers
\* the amount (and, if `reserve` is set, the owner's reserve does too) and
\* then moves n from pool p to the recipient and into circulation; otherwise
\* it fails with one of `errors` and changes nothing
PayoutAnswers(reserve, errors) ==
    ( /\ last = Idle
      /\ last'.op = "payout_tokens"
      /\ last'.caller = ILOCKOwner ) =>
        \A to \in RecipientInputs, n \in AmountInputs, p \in PayoutNameInputs :
            payout_tokens(ILOCKOwner, to, n, p) =>
                IF (IF reserve THEN PoolAndReserveCover(n, p)
                    ELSE PoolCovers(n, p))
                THEN /\ last'.result = "Ok"
                     /\ pools'[p] = pools[p] - n
                     /\ balances'[to] = balances[to] + n
                     /\ total_supply' = total_supply + n
                     /\ \A q \in PoolNames \ {p} : pools'[q] = pools[q]
                ELSE /\ last'.result \in errors
                     /\ UNCHANGED ledger_state

RewardAccounts ==
    <<pools, balances, total_supply, rewarded_total,
      rewarded_interlocker_total>>

C29_SelfMintAtTokenPrice ==
    [][ (last = Idle /\ last'.op = "self_mint") =>
          \A p \in PriceInputs :
              self_mint(last'.caller, p) =>
                  /\ last'.result = "Ok" =>
                        /\ <<last'.caller, last'.caller, nft_psp22price>>
                               \in forwarded'
                        /\ \A t \in forwarded' \ forwarded :
                               t[3] = nft_psp22price
                  /\ nft_psp22price > p =>
                        /\ last'.result # "Ok"
                        /\ UNCHANGED <<token_owner, last_token_id, collections>>
      ]_vars

(***************************************************************************)
(* Properties of the satisfied transaction.                                *)
(***************************************************************************)
\* C30: once the privileged operation of the in-flight transaction has
\* executed, some signatory can order a new transaction that overwrites the
\* slot, also while the slot is within its time window.
C30_SatisfiedSlotCanBeOrdered ==
    (last = Idle /\ executed >= 1 /\ now - tx.time < timelimit) =>
        \E c \in Range(signatories), f \in FunctionNames :
            order_multisigtx_result(c, f) = "Ok"

(***************************************************************************)
(* Properties of the freshly constructed contract.                         *)
(***************************************************************************)
\* C31: on a contract on which no transaction was ever ordered, an
\* order_multisigtx by a signatory is not refused, whatever the block time
\* and the time limit of the constructor (it succeeds whenever the function
\* name is one of the seven).
C31_FirstOrderSucceeds ==
    [][ ( /\ last = Idle
          /\ last'.op = "order_multisigtx"
          /\ orderedBy = {}
          /\ Contains(signatories, last'.caller) )
        => last'.result \in {"Ok", "InvalidFunction"} ]_vars

\* C32: the zero address is never a signatory.
C32_ZeroAddressNeverSignatory == ~Contains(signatories, ZeroAddress)

\* C33: every multisig operation decides staleness alike: for a signatory,
\* check_signatures fails with TransactionStale exactly when
\* now - tx.time >= timelimit, the test of sign_multisigtx and
\* check_multisig, and order_multisigtx treats the slot as free (does not
\* answer TransactionAlreadyOrdered) exactly in those states.
C33_StalenessDecidedAlike ==
    [][ /\ ( /\ last = Idle
             /\ last'.op = "check_signatures"
             /\ Contains(signatories, last'.caller) )
          => ((last'.result = "TransactionStale") <=> Stale)
        /\ ( /\ last = Idle
             /\ last'.op = "order_multisigtx"
             /\ Contains(signatories, last'.caller) )
          => ((last'.result # "TransactionAlreadyOrdered") <=> Stale)
        /\ ( /\ last = Idle
             /\ last'.op = "sign_multisigtx"
             /\ last'.result = "TransactionStale" )
          => Stale
      ]_vars

(***************************************************************************)
(* Properties of vesting under any call schedule.                          *)
(***************************************************************************)
\* C34: a registered stakeholder with paid < share obtains a payout in any
\* period from the cliff on in which it was not paid yet, skipped periods
\* and periods after the last vesting period included; the payouts lead up
\* to paid == share exactly (no payout steps over share), and from then on
\* distribute_tokens fails with StakeholderSharePaid.
C34_VestingCompletes ==
    [][ DistributeStep =>
          \A a \in StakeholderInputs, p \in VestingPoolInputs :
              ( /\ distribute_tokens(last'.caller, a, p)
                /\ stakes[<<a, p>>].registered ) =>
                  LET stake == stakes[<<a, p>>] IN
                  /\ ( /\ stake.paid < stake.share
                       /\ month >= Cliffs(p)
                       /\ stake.lastpaid # month ) =>
                         /\ last'.result = "Ok"
                         /\ stakes'[<<a, p>>].paid > stake.paid
                         /\ stakes'[<<a, p>>].paid <= stake.share
                  /\ stake.paid = stake.share =>
                         last'.result = "StakeholderSharePaid"
      ]_vars

(***************************************************************************)
(* Properties of locking, burning and transferring access tokens.          *)
(***************************************************************************)
\* is_locked_nft(id)
is_locked_nft(id) == id \in locked_tokens

\* get_locked_token_count()
get_locked_token_count == locked_token_count

\* C35: after any sequence of lock, burn, mint and transfer operations
\* get_locked_token_count() is the number of existing tokens for which
\* is_locked_nft is true.
C35_LockedCountIsNumberLocked ==
    get_locked_token_count =
        Cardinality({id \in DOMAIN token_owner : is_locked_nft(id)})

\* C36: while the contract is not paused, burn(account, id) of an existing
\* token by its owner or by a caller approved for it, with account the
\* token's owner, succeeds whatever has or has not been locked, and the
\* token does not exist afterwards.
C36_BurnByOwnerSucceeds ==
    [][ (last = Idle /\ last'.op = "burn" /\ ~paused) =>
          \A a \in NftAccounts, id \in IdInputs :
              ( /\ id \in DOMAIN token_owner
                /\ token_owner[id] = a
                /\ \/ last'.caller = a
                   \/ psp34_allowance(a, last'.caller, id)
                /\ burn(last'.caller, a, id) ) =>
                  /\ last'.result = "Ok"
                  /\ id \notin DOMAIN token_owner'
      ]_vars

\* C37: a transfer(to, id) to another account that the PSP34 layer
\* authorizes (the caller owns id or is approved for it) succeeds and moves
\* id out of the previous owner's collection into the collection of `to`.
C37_AuthorizedTransferMoves ==
    [][ (last = Idle /\ last'.op = "PSP34::transfer" /\ ~paused) =>
          \A to \in NftAccounts, id \in IdInputs :
              ( /\ id \in DOMAIN token_owner
                /\ to # token_owner[id]
                /\ \/ last'.caller = token_owner[id]
                   \/ psp34_allowance(token_owner[id], last'.caller, id)
                /\ psp34_transfer(last'.caller, to, id) ) =>
                  /\ last'.result = "Ok"
                  /\ Position(CollectionOrNew(collections', token_owner[id]),
                              id) = 0
                  /\ Position(CollectionOrNew(collections', to), id) # 0
      ]_vars

(***************************************************************************)
(* Properties of minting at the cap and of failed mints.                   *)
(***************************************************************************)
\* the four minting messages
MintOps == {"mint", "mint_to", "self_mint", "mint_with_attributes"}

\* C38: a mint is rejected for the cap only when the cap would be
\* surpassed: with last_token_id == cap - 1 the next mint is not refused
\* for the cap, and when it succeeds it mints token id == cap.
C38_MintsUpToCap ==
    [][ (last = Idle /\ last'.op \in MintOps /\ last_token_id = cap - 1) =>
          /\ last'.result # "CapMet"
          /\ last'.result = "Ok" =>
                 /\ last_token_id' = cap
                 /\ cap \in DOMAIN token_owner'
      ]_vars

\* C39: a mint that returns an error leaves all state as it was before the
\* call, and last_token_id changes only in a successful mint, which mints
\* the id that directly follows it; so the ids of successive successful
\* mints are consecutive whatever mints failed in between.
C39_FailedMintChangesNothing ==
    [][ /\ (last = Idle /\ last'.op \in MintOps /\ last'.result # "Ok") =>
              UNCHANGED <<multisig_vars, ledger_vars, nft_vars>>
        /\ last_token_id' # last_token_id =>
              /\ last'.op \in MintOps
              /\ last'.result = "Ok"
              /\ last_token_id' = last_token_id + 1
              /\ DOMAIN token_owner' =
                     DOMAIN token_owner \cup {last_token_id + 1}
      ]_vars

\* a mint was refused for the cap after cap - 1 successful mints, and the
\* counter still names the last minted id
C39_Witness ==
    /\ last.op \in MintOps
    /\ last.result = "CapMet"
    /\ last_token_id = cap - 1
    /\ DOMAIN token_owner = 1..(cap - 1)

(***************************************************************************)
(* self_mint under re-entrancy.  self_mint suspends in call_socket; the    *)
(* contract called there may call self_mint again before it returns.  The  *)
(* suspended calls are kept in `last`, innermost first.                    *)
(***************************************************************************)
\* how deep self_mint calls nest in one run of SpecReentry
MaxDepth == 2
\* how many times the callee calls back during one outer self_mint
MaxReentries == 2

\* the contract that call_socket calls; it is the caller of a re-entering
\* self_mint
SocketCallee == "ilockmvp"

\* whether a write to self.last_token_id reaches storage at once or with
\* the message's return: the source does not flush before call_socket, the
\* storage layer decides
FlushInputs == BOOLEAN

\* the storage that a reverted call restores
token_storage == <<last_token_id, token_owner, collections, forwarded>>

\* a self_mint suspended in call_socket: its minter, its price, the id it
\* reserved by the increment, and the storage at its entry
Frame(minter, price) ==
    [minter |-> minter, price |-> price, id |-> last_token_id + 1,
     saved |-> token_storage]

\* the contract is inside call_socket; answer is what the last re-entering
\* call returned to the callee
Calling(caller, stack, entries, flushed) ==
    [op |-> "self_mint", caller |-> caller, result |-> "Calling",
     stack |-> stack, entries |-> entries, flushed |-> flushed,
     answer |-> "none"]

\* self_mint up to call_socket: the increment, the cap and the price
self_mint_checks(price) ==
    IF paused THEN "Paused"
    ELSE IF cap_met(last_token_id + 1) THEN "CapMet"
    ELSE IF nft_psp22price > price THEN "PriceTooLow"
    ELSE "Ok"

\* self_mint called from outside runs up to call_socket
self_mint_begin(caller, price, flushed) ==
    LET r == self_mint_checks(price) IN
    /\ last = Idle
    /\ IF r = "Ok"
       THEN /\ last' = Calling(caller, <<Frame(caller, price)>>, 0, flushed)
            /\ last_token_id' =
                   IF flushed THEN last_token_id + 1 ELSE last_token_id
       ELSE /\ last' = Returned("self_mint", caller, r)
            /\ UNCHANGED last_token_id
    /\ UNCHANGED <<token_owner, collections, forwarded, operator_approvals,
                   socket, locked_tokens, locked_token_count, attributes,
                   nft_ops>>
    /\ UNCHANGED nft_frame

\* the callee calls self_mint while the innermost self_mint waits for it;
\* a refused call is reverted and returns to the callee
self_mint_reenter(price) ==
    LET r == self_mint_checks(price) IN
    /\ last.result = "Calling"
    /\ Len(last.stack) < MaxDepth
    /\ last.entries < MaxReentries
    /\ IF r = "Ok"
       THEN /\ last' = [last EXCEPT
                           !.stack = <<Frame(SocketCallee, price)>> \o @,
                           !.entries = @ + 1]
            /\ last_token_id' =
                   IF last.flushed THEN last_token_id + 1 ELSE last_token_id
       ELSE /\ last' = [last EXCEPT !.entries = @ + 1, !.answer = r]
            /\ UNCHANGED last_token_id
    /\ UNCHANGED <<token_owner, collections, forwarded, operator_approvals,
                   socket, locked_tokens, locked_token_count, attributes,
                   nft_ops>>
    /\ UNCHANGED nft_frame

\* the id a resumed self_mint passes to _mint_to: self.last_token_id as it
\* reads after the call
resumed_id(frame, flushed) == IF flushed THEN last_token_id ELSE frame.id

\* a faulty resumption whose _mint_to takes an id that exists
self_mint_resume_result_overwriting(id) ==
    IF token_call_socket # "Ok" THEN token_call_socket
    ELSE "Ok"

\* self_mint after call_socket: the socket's answer, then _mint_to
self_mint_resume_result(id) ==
    IF token_call_socket # "Ok" THEN token_call_socket
    ELSE IF id \in DOMAIN token_owner THEN "TokenExists"
    ELSE "Ok"

\* call_socket returns to the innermost self_mint, which mints and returns
\* or fails and is reverted
call_socket_returns ==
    /\ last.result = "Calling"
    /\ LET frame == Head(last.stack)
           rest == Tail(last.stack)
           id == resumed_id(frame, last.flushed)
           r == self_mint_resume_result(id)
       IN
       /\ IF r = "Ok"
          THEN /\ last_token_id' = id
               /\ token_owner' = Insert(token_owner, id, frame.minter)
               /\ collections' =
                      Insert(collections, frame.minter,
                             Append(CollectionOrNew(collections, frame.minter),
                                    id))
               /\ forwarded' = forwarded \cup
                      {<<frame.minter, frame.minter, frame.price>>}
          ELSE /\ last_token_id' = frame.saved[1]
               /\ token_owner' = frame.saved[2]
               /\ collections' = frame.saved[3]
               /\ forwarded' = frame.saved[4]
       /\ last' = IF rest = <<>> THEN Returned("self_mint", frame.minter, r)
                  ELSE [last EXCEPT !.stack = rest, !.answer = r]
       /\ nft_ops' = IF rest = <<>> /\ r = "Ok" THEN nft_ops + 1 ELSE nft_ops
    /\ UNCHANGED <<operator_approvals, socket, locked_tokens,
                   locked_token_count, attributes>>
    /\ UNCHANGED nft_frame

\* SpecReentry runs self_mint with a callee that may call back
NextReentry ==
    \/ \E c \in NftAccounts, p \in PriceInputs, f \in FlushInputs :
           self_mint_begin(c, p, f)
    \/ \E p \in PriceInputs : self_mint_reenter(p)
    \/ call_socket_returns /\ nft_ops' <= MaxNftOps
    \/ \E c \in NftAccounts : create_socket(c) /\ nft_ops' <= MaxNftOps
    \/ last.result # "Calling" /\ Return

SpecReentry == Init /\ [][NextReentry]_vars

\* how many times id stands in the collections
Holdings(id) ==
    Cardinality({<<a, i>> \in (DOMAIN collections) \X (1..(MaxCap + 1)) :
                    i <= Len(collections[a]) /\ collections[a][i] = id})

\* C40: self_mint increments the id counter and tests the cap before
\* call_socket; when the callee re-enters self_mint during that call, every
\* self_mint that succeeds mints the id it reserved before its external
\* call, to its minter and not over an existing token, no id is minted
\* twice, and last_token_id <= cap.
C40_SelfMintReentrancySafe ==
    /\ [](/\ last_token_id <= cap
          /\ \A id \in 1..(MaxCap + 1) :
                 Holdings(id) = IF id \in DOMAIN token_owner THEN 1 ELSE 0)
    /\ [][ ( /\ last.result = "Calling"
             /\ \/ last'.result # "Calling"
                \/ Len(last'.stack) < Len(last.stack) ) =>
               LET frame == Head(last.stack)
                   answer == IF last'.result = "Calling" THEN last'.answer
                             ELSE last'.result
               IN
               IF answer = "Ok"
               THEN /\ frame.id \notin DOMAIN token_owner
                    /\ token_owner' =
                           Insert(token_owner, frame.id, frame.minter)
                    /\ last_token_id' = frame.id
               ELSE token_storage' = frame.saved
         ]_vars

\* the callee re-entered self_mint and minted the id the outer call had
\* reserved; the outer call was refused and the whole call undone
C40_Witness ==
    /\ last.op = "self_mint"
    /\ last.result = "TokenExists"
    /\ last_token_id = 0
    /\ token_owner = <<>>

====
